---- MODULE Spec2Model ----
(***************************************************************************)
(* Directory acquisition subsystem of dir_viz: the result cache            *)
(* (web_visualizer/services/cache_service.py), the traversal engine        *)
(* (utils/directory_scanner.py) and the acquisition service                *)
(* (web_visualizer/services/directory_service.py, web_visualizer/models.py)*)
(***************************************************************************)
EXTENDS Integers, Sequences, FiniteSets, TLC

VARIABLES
    \* ---- CacheService ----
    cache,          \* self._cache: OrderedDict, first element = oldest
    stats,          \* self._stats
    max_entries,    \* self.max_entries
    default_ttl,    \* self.default_ttl
    now,            \* datetime.now(), in whole seconds
    \* ---- observation of the calls made so far ----
    lastOp,         \* the call that produced the current state and its outcome
    getCalls,       \* number of CacheService.get calls since construction
    getsSinceClear, \* number of CacheService.get calls since construction or the last clear
    steps,          \* number of calls and clock ticks so far (bounds the run)
    \* ---- the filesystem and one DirectoryScanner ----
    fs,               \* the directory tree on disk, as the entry of its root
    exclude_patterns, \* DirectoryScanner.exclude_patterns
    max_depth,        \* DirectoryScanner.max_depth
    max_workers,      \* DirectoryScanner.max_workers
    seqResult,        \* what scan_sequential(root) returned
    genResult,        \* what list(scan_generator(root)) returned
    parResult,        \* what scan_parallel(root) returned
    parCalls,         \* the system calls a running scan_parallel has issued
    frames,           \* per thread: the stack of scan_parallel invocations it is in
    futures,          \* the futures submitted to self._executor, in submission order
    config,           \* web_visualizer.config.config
    calls,            \* the DirectoryService call of each caller
    requests,         \* number of requests made to the service so far
    traversals,       \* number of runs of _scan_directory_sync so far
    returnedFor       \* cache key -> the tree returned by the call that cached it and
                      \* that call's max_depth argument

cacheVars == <<cache, stats, max_entries, default_ttl, now,
               lastOp, getCalls, getsSinceClear, steps>>

scanVars == <<fs, exclude_patterns, max_depth, max_workers, seqResult, genResult,
              parResult, parCalls, frames, futures>>

svcVars == <<config, calls, requests, traversals, returnedFor>>
notCache == <<scanVars, svcVars>>
vars == <<cacheVars, scanVars, svcVars>>

-----------------------------------------------------------------------------
(* Bounds of the model *)

MaxCap == 2
MaxSteps == 4

CacheKeys == {"k1", "k2", "k3"}
CacheValues == {"v1"}

\* seconds that pass between one call and the next
Elapse == {0, 1}

\* ttl: Optional[int]; given = FALSE is None
TtlArgs == {[given |-> FALSE, v |-> 0]} \cup {[given |-> TRUE, v |-> t] : t \in {-1, 0, 1}}
NoTtl == [given |-> FALSE, v |-> 0]

\* the default_ttl the cache is constructed with
DefaultTtls == {2}

\* additional_seconds of extend_ttl
Extensions == {1}

-----------------------------------------------------------------------------
(* CacheEntry; t is the value datetime.now() returns during the call *)

\* CacheEntry.__init__; key is the OrderedDict key the entry is stored under.
\* created_at is written here and read only by get_entry_info: it is left out.
NewCacheEntry(key, value, ttl_seconds, t) ==
    [key |-> key, value |-> value,
     expires_at |-> t + ttl_seconds,
     access_count |-> 1,
     last_accessed |-> t]

\* an entry counted as expired from the moment its TTL is reached
is_expired_AtExpiry(entry, t) == t >= entry.expires_at

\* CacheEntry.is_expired
is_expired(entry, t) == t > entry.expires_at

\* CacheEntry.access
access(entry, t) == [entry EXCEPT !.access_count = @ + 1, !.last_accessed = t]

-----------------------------------------------------------------------------
(* OrderedDict helpers *)

Keys(c) == {c[i].key : i \in 1..Len(c)}

IndexOf(c, key) == CHOOSE i \in 1..Len(c) : c[i].key = key

Lookup(c, key) == c[IndexOf(c, key)]

\* del self._cache[key]
Del(c, key) == SelectSeq(c, LAMBDA e : e.key # key)

MoveToEnd_Missing(c, key) == c

\* self._cache.move_to_end(key)
MoveToEnd(c, key) == Append(Del(c, key), Lookup(c, key))

\* entry.access() on the entry stored under key
Touch(c, key, t) == [c EXCEPT ![IndexOf(c, key)] = access(@, t)]

\* next(iter(self._cache))
OldestKey(c) == c[1].key

NoResult == [some |-> FALSE, value |-> "None"]
Some(v) == [some |-> TRUE, value |-> v]

-----------------------------------------------------------------------------
(* CacheService operations: each is the body run under self._lock, given as *)
(* the resulting cache, statistics and return value                         *)

CacheGet_ExpiredUncounted(c, st, key, t) ==
    IF key \notin Keys(c)
    THEN [cache |-> c, stats |-> [st EXCEPT !.misses = @ + 1], result |-> NoResult]
    ELSE IF is_expired(Lookup(c, key), t)
    THEN [cache |-> Del(c, key),
          stats |-> [st EXCEPT !.expired = @ + 1],
          result |-> NoResult]
    ELSE [cache |-> Touch(MoveToEnd(c, key), key, t),
          stats |-> [st EXCEPT !.hits = @ + 1],
          result |-> Some(Lookup(c, key).value)]

\* CacheService.get
CacheGet(c, st, key, t) ==
    IF key \notin Keys(c)
    THEN [cache |-> c, stats |-> [st EXCEPT !.misses = @ + 1], result |-> NoResult]
    ELSE IF is_expired(Lookup(c, key), t)
    THEN [cache |-> Del(c, key),
          stats |-> [st EXCEPT !.expired = @ + 1, !.misses = @ + 1],
          result |-> NoResult]
    ELSE [cache |-> Touch(MoveToEnd(c, key), key, t),
          stats |-> [st EXCEPT !.hits = @ + 1],
          result |-> Some(Lookup(c, key).value)]

\* ttl = ttl or self.default_ttl
EffectiveTtl(ttl) == IF ttl.given /\ ttl.v # 0 THEN ttl.v ELSE default_ttl

\* the eviction loop of CacheService.set: while len(self._cache) >= self.max_entries
RECURSIVE EvictLoop(_, _)
EvictLoop(c, n) ==
    IF Len(c) >= max_entries
    THEN IF Len(c) = 0
         THEN [cache |-> c, evicted |-> n, raised |-> TRUE]   \* next(iter({})) raises StopIteration
         ELSE EvictLoop(Del(c, OldestKey(c)), n + 1)
    ELSE [cache |-> c, evicted |-> n, raised |-> FALSE]

\* CacheService.set
CacheSet(c, st, key, value, ttl, t) ==
    LET c1 == IF key \in Keys(c) THEN Del(c, key) ELSE c
        ev == EvictLoop(c1, 0)
    IN  [cache |-> IF ev.raised THEN ev.cache
                   ELSE Append(ev.cache, NewCacheEntry(key, value, EffectiveTtl(ttl), t)),
         stats |-> [st EXCEPT !.evictions = @ + ev.evicted],
         evicted |-> ev.evicted,
         raised |-> ev.raised]

\* CacheService.delete
CacheDelete(c, key) ==
    IF key \in Keys(c) THEN [cache |-> Del(c, key), result |-> TRUE]
    ELSE [cache |-> c, result |-> FALSE]

ZeroStats == [hits |-> 0, misses |-> 0, evictions |-> 0, expired |-> 0]

\* CacheService.cleanup_expired
CacheCleanup(c, st, t) ==
    LET kept == SelectSeq(c, LAMBDA e : ~is_expired(e, t))
        removed == Len(c) - Len(kept)
    IN  [cache |-> kept, stats |-> [st EXCEPT !.expired = @ + removed], result |-> removed]

\* CacheService.extend_ttl
\* an extend_ttl that also extends an entry that has expired
CacheExtendTtl_AlsoExpired(c, key, additional_seconds, t) ==
    IF key \notin Keys(c) THEN [cache |-> c, result |-> FALSE]
    ELSE [cache |-> [c EXCEPT ![IndexOf(c, key)].expires_at = @ + additional_seconds],
          result |-> TRUE]

CacheExtendTtl(c, key, additional_seconds, t) ==
    IF key \notin Keys(c) THEN [cache |-> c, result |-> FALSE]
    ELSE IF ~is_expired(Lookup(c, key), t)
    THEN [cache |-> [c EXCEPT ![IndexOf(c, key)].expires_at = @ + additional_seconds],
          result |-> TRUE]
    ELSE [cache |-> c, result |-> FALSE]

\* CacheService.get_stats
get_stats ==
    [entries |-> Len(cache), max_entries |-> max_entries,
     total_hits |-> stats.hits, total_misses |-> stats.misses,
     total_evictions |-> stats.evictions, total_expired |-> stats.expired]

-----------------------------------------------------------------------------
(* The calls on one CacheService as actions; dt is the time that has passed *)
(* since the clock was last read (delete and clear do not read it)          *)

Op(name, key) ==
    [op |-> name, key |-> key, ttl |-> NoTtl, hit |-> FALSE, evicted |-> 0,
     raised |-> FALSE, ok |-> FALSE]

CanStep == steps < MaxSteps

Get(key, dt) ==
    /\ CanStep
    /\ now' = now + dt
    /\ LET r == CacheGet(cache, stats, key, now + dt) IN
        /\ cache' = r.cache
        /\ stats' = r.stats
        /\ lastOp' = [Op("get", key) EXCEPT !.hit = r.result.some]
    /\ getCalls' = getCalls + 1
    /\ getsSinceClear' = getsSinceClear + 1
    /\ steps' = steps + 1
    /\ UNCHANGED notCache
    /\ UNCHANGED <<max_entries, default_ttl>>

Set(key, value, ttl, dt) ==
    /\ CanStep
    /\ now' = now + dt
    /\ LET r == CacheSet(cache, stats, key, value, ttl, now + dt) IN
        /\ cache' = r.cache
        /\ stats' = r.stats
        /\ lastOp' = [Op("set", key) EXCEPT !.ttl = ttl, !.evicted = r.evicted,
                                           !.raised = r.raised]
    /\ steps' = steps + 1
    /\ UNCHANGED notCache
    /\ UNCHANGED <<max_entries, default_ttl, getCalls, getsSinceClear>>

Delete(key) ==
    /\ CanStep
    /\ LET r == CacheDelete(cache, key) IN
        /\ cache' = r.cache
        /\ lastOp' = [Op("delete", key) EXCEPT !.ok = r.result]
    /\ steps' = steps + 1
    /\ UNCHANGED notCache
    /\ UNCHANGED <<stats, max_entries, default_ttl, now, getCalls, getsSinceClear>>

\* CacheService.clear
Clear ==
    /\ CanStep
    /\ cache' = <<>>
    /\ stats' = ZeroStats
    /\ lastOp' = Op("clear", "")
    /\ getsSinceClear' = 0
    /\ steps' = steps + 1
    /\ UNCHANGED notCache
    /\ UNCHANGED <<max_entries, default_ttl, now, getCalls>>

CleanupExpired(dt) ==
    /\ CanStep
    /\ now' = now + dt
    /\ LET r == CacheCleanup(cache, stats, now + dt) IN
        /\ cache' = r.cache
        /\ stats' = r.stats
        /\ lastOp' = [Op("cleanup_expired", "") EXCEPT !.evicted = r.result]
    /\ steps' = steps + 1
    /\ UNCHANGED notCache
    /\ UNCHANGED <<max_entries, default_ttl, getCalls, getsSinceClear>>

ExtendTtl(key, additional_seconds, dt) ==
    /\ CanStep
    /\ now' = now + dt
    /\ LET r == CacheExtendTtl(cache, key, additional_seconds, now + dt) IN
        /\ cache' = r.cache
        /\ lastOp' = [Op("extend_ttl", key) EXCEPT !.ok = r.result]
    /\ steps' = steps + 1
    /\ UNCHANGED notCache
    /\ UNCHANGED <<stats, max_entries, default_ttl, getCalls, getsSinceClear>>

\* CacheService.get_entry_info: reads the entry, also an expired one, and leaves
\* the cache and the counters as they are. hit: an entry was found; ok: its
\* "is_expired"
GetEntryInfo(key) ==
    /\ CanStep
    /\ lastOp' = [Op("get_entry_info", key) EXCEPT
                     !.hit = key \in Keys(cache),
                     !.ok = key \in Keys(cache) /\ is_expired(Lookup(cache, key), now)]
    /\ steps' = steps + 1
    /\ UNCHANGED notCache
    /\ UNCHANGED <<cache, stats, max_entries, default_ttl, now, getCalls, getsSinceClear>>

\* CacheService.__init__
InitCache ==
    /\ cache = <<>>
    /\ stats = ZeroStats
    /\ max_entries \in 0..MaxCap
    /\ default_ttl \in DefaultTtls
    /\ now = 0
    /\ lastOp = Op("init", "")
    /\ getCalls = 0
    /\ getsSinceClear = 0
    /\ steps = 0

CacheCall ==
    \/ \E key \in CacheKeys, dt \in Elapse : Get(key, dt)
    \/ \E key \in CacheKeys, value \in CacheValues, ttl \in TtlArgs, dt \in Elapse :
          Set(key, value, ttl, dt)
    \/ \E key \in CacheKeys : Delete(key)
    \/ Clear
    \/ \E dt \in Elapse : CleanupExpired(dt)
    \/ \E key \in CacheKeys, s \in Extensions, dt \in Elapse : ExtendTtl(key, s, dt)
    \/ \E key \in CacheKeys : GetEntryInfo(key)

-----------------------------------------------------------------------------
(* Names. A name is the sequence of its characters; Str joins the characters *)
(* into the string that is used as a dict key.                               *)

RECURSIVE Str(_)
Str(cs) == IF cs = <<>> THEN "" ELSE Head(cs) \o Str(Tail(cs))

-----------------------------------------------------------------------------
(* ExclusionFilter *)

HasWildcard(p) == \E i \in 1..Len(p) : p[i] \in {"*", "?"}

\* ExclusionFilter.__init__: self.literal_patterns
literal_patterns(patterns) == {p \in patterns : ~HasWildcard(p)}

\* pattern.replace("*", ".*").replace("?", "."), the text handed to re.compile
RECURSIVE RegexText(_)
RegexText(p) ==
    IF p = <<>> THEN <<>>
    ELSE (IF Head(p) = "*" THEN <<".", "*">>
          ELSE IF Head(p) = "?" THEN <<".">>
          ELSE <<Head(p)>>) \o RegexText(Tail(p))

\* re.compile on that text: a sequence of atoms, each one character ("." is any
\* character) that a following "*" repeats
RECURSIVE RegexAtoms(_)
RegexAtoms(r) ==
    IF r = <<>> THEN <<>>
    ELSE IF Len(r) >= 2 /\ r[2] = "*"
    THEN <<[ch |-> r[1], star |-> TRUE]>> \o RegexAtoms(SubSeq(r, 3, Len(r)))
    ELSE <<[ch |-> r[1], star |-> FALSE]>> \o RegexAtoms(Tail(r))

\* ExclusionFilter._compile_wildcard_patterns
compiled_patterns(patterns) == {RegexAtoms(RegexText(p)) : p \in {q \in patterns : HasWildcard(q)}}

AtomMatches(a, c) == a.ch = "." \/ a.ch = c

\* pattern.match(entry_name) for a pattern compiled from "^...$"
RECURSIVE RegexMatch(_, _)
RegexMatch(atoms, name) ==
    IF atoms = <<>> THEN name = <<>>
    ELSE IF Head(atoms).star
    THEN \/ RegexMatch(Tail(atoms), name)
         \/ /\ name # <<>>
            /\ AtomMatches(Head(atoms), Head(name))
            /\ RegexMatch(atoms, Tail(name))
    ELSE /\ name # <<>>
         /\ AtomMatches(Head(atoms), Head(name))
         /\ RegexMatch(Tail(atoms), Tail(name))

\* ExclusionFilter.should_exclude, for the filter built from self.exclude_patterns
should_exclude(self, entry_name) ==
    \/ (Len(entry_name) >= 1 /\ entry_name[1] = ".")
    \/ entry_name \in literal_patterns(self.exclude_patterns)
    \/ \E pattern \in compiled_patterns(self.exclude_patterns) : RegexMatch(pattern, entry_name)

-----------------------------------------------------------------------------
(* The nested dicts the scanner returns: a value is None or a dict from key  *)
(* strings to values                                                         *)

None == [leaf |-> TRUE, d |-> <<>>]
Dict(f) == [leaf |-> FALSE, d |-> f]
EmptyDict == Dict(<<>>)

\* structure[key] = value
DictSet(s, key, value) ==
    Dict([k \in (DOMAIN s.d) \cup {key} |-> IF k = key THEN value ELSE s.d[k]])

MaxDepthDict == DictSet(EmptyDict, "... (max depth reached)", None)

\* an except clause that returns an empty structure
ListingErrorDict_Bare(listing) == EmptyDict

\* the dict returned by the except clauses around os.scandir
ListingErrorDict(listing) ==
    IF listing = "perm" THEN DictSet(EmptyDict, "Permission denied", None)
    ELSE IF listing = "gone" THEN DictSet(EmptyDict, "Not found", None)
    ELSE DictSet(EmptyDict, "Error: <e>", None)

-----------------------------------------------------------------------------
(* The filesystem: an entry is what os.scandir yields for one name, with the  *)
(* entries below it in the order os.scandir yields them.                      *)
(*   kind:    file | dir | symlink | other (fifo, socket, device)             *)
(*            | badmeta (is_dir raises OSError)                               *)
(*            | badlink (is_symlink raises: listing says which error, perm    *)
(*              or oserr)                                                     *)
(*   listing: for a dir, what os.scandir on it does: ok | perm                *)
(*            (PermissionError) | gone (FileNotFoundError) | oserr (OSError)  *)
(*   target:  for a symlink, what it points to: file | dir | broken           *)

File(name, size) ==
    [name |-> name, kind |-> "file", listing |-> "", target |-> "", size |-> size, items |-> <<>>]
DirEntry(name, items) ==
    [name |-> name, kind |-> "dir", listing |-> "ok", target |-> "", size |-> 0, items |-> items]
UnlistableDir(name, listing) ==
    [name |-> name, kind |-> "dir", listing |-> listing, target |-> "", size |-> 0, items |-> <<>>]
Symlink(name, target) ==
    [name |-> name, kind |-> "symlink", listing |-> "", target |-> target, size |-> 1, items |-> <<>>]
Other(name) ==
    [name |-> name, kind |-> "other", listing |-> "", target |-> "", size |-> 0, items |-> <<>>]
BadMeta(name) ==
    [name |-> name, kind |-> "badmeta", listing |-> "", target |-> "", size |-> 0, items |-> <<>>]
BadLink(name, error) ==
    [name |-> name, kind |-> "badlink", listing |-> error, target |-> "", size |-> 0, items |-> <<>>]

\* one system call on the entry at path, made while scanning at depth
Call(op, path, depth) == [op |-> op, path |-> path, depth |-> depth]

-----------------------------------------------------------------------------
(* DirectoryScanner *)

AtMaxDepth_OffByOne(self, current_depth) == current_depth > self.max_depth

\* if current_depth >= self.max_depth
AtMaxDepth(self, current_depth) == current_depth >= self.max_depth

\* entry.is_symlink() is called outside the try of the loop body: the position
\* of the first entry let through by the filter on which it raises, where the
\* loop over the directory ends; 0 when there is none
FirstBadLink(self, items) ==
    LET bad == {i \in 1..Len(items) :
                  items[i].kind = "badlink" /\ ~should_exclude(self, items[i].name)}
    IN IF bad = {} THEN 0 ELSE CHOOSE i \in bad : \A j \in bad : i <= j

\* the entries the loop over the directory gets through
LoopItems(self, items) ==
    IF FirstBadLink(self, items) = 0 THEN items
    ELSE SubSeq(items, 1, FirstBadLink(self, items) - 1)

\* the is_symlink call that raised, if one did
BadLinkCall(self, items, path, current_depth) ==
    IF FirstBadLink(self, items) = 0 THEN {}
    ELSE {Call("is_symlink", Append(path, items[FirstBadLink(self, items)].name),
               current_depth)}

\* the structure the except clauses of the scan return for the exception
BadLinkDict(self, items) == ListingErrorDict(items[FirstBadLink(self, items)].listing)

RECURSIVE scan_sequential(_, _, _, _)
RECURSIVE SeqLoop(_, _, _, _, _, _)

\* the for loop of scan_sequential over the entries from position i on, with the
\* structure built and the calls made so far
SeqLoop(self, items, path, current_depth, i, acc) ==
    IF i > Len(items) THEN acc
    ELSE LET entry == items[i]
             p == Append(path, entry.name)
             q(op) == Call(op, p, current_depth)
         IN
         IF should_exclude(self, entry.name)
         THEN SeqLoop(self, items, path, current_depth, i + 1, acc)
         ELSE IF entry.kind = "symlink"
         THEN SeqLoop(self, items, path, current_depth, i + 1,
                [s |-> DictSet(acc.s, Str(entry.name) \o " (symlink)", None),
                 calls |-> acc.calls \cup {q("is_symlink")}])
         ELSE IF entry.kind = "badmeta"
         THEN SeqLoop(self, items, path, current_depth, i + 1,
                [s |-> DictSet(acc.s, Str(entry.name) \o " (access error)", None),
                 calls |-> acc.calls \cup {q("is_symlink"), q("is_dir")}])
         ELSE IF entry.kind = "dir"
         THEN LET sub == scan_sequential(self, entry, p, current_depth + 1) IN
              SeqLoop(self, items, path, current_depth, i + 1,
                [s |-> DictSet(acc.s, Str(entry.name), sub.s),
                 calls |-> acc.calls \cup {q("is_symlink"), q("is_dir")} \cup sub.calls])
         ELSE IF entry.kind = "file"
         THEN SeqLoop(self, items, path, current_depth, i + 1,
                [s |-> DictSet(acc.s, Str(entry.name), None),
                 calls |-> acc.calls \cup {q("is_symlink"), q("is_dir"), q("is_file")}])
         ELSE SeqLoop(self, items, path, current_depth, i + 1,
                [s |-> acc.s,
                 calls |-> acc.calls \cup {q("is_symlink"), q("is_dir"), q("is_file")}])

\* DirectoryScanner.scan_sequential(self, path, current_depth) on the directory dir found
\* at path: the structure returned and the system calls made
scan_sequential(self, dir, path, current_depth) ==
    IF AtMaxDepth(self, current_depth)
    THEN [s |-> MaxDepthDict, calls |-> {}]
    ELSE IF dir.listing # "ok"
    THEN [s |-> ListingErrorDict(dir.listing),
          calls |-> {Call("scandir", path, current_depth)}]
    ELSE LET r == SeqLoop(self, LoopItems(self, dir.items), path, current_depth, 1,
                          [s |-> EmptyDict, calls |-> {Call("scandir", path, current_depth)}])
         IN IF FirstBadLink(self, dir.items) = 0 THEN r
            ELSE [s |-> BadLinkDict(self, dir.items),
                  calls |-> r.calls \cup BadLinkCall(self, dir.items, path, current_depth)]

RECURSIVE scan_generator(_, _, _, _)
RECURSIVE GenLoop(_, _, _, _, _)

Yield(path, type, depth) == [path |-> path, type |-> type, depth |-> depth]

\* the for loop of scan_generator over the entries from position i on: the
\* tuples yielded, in order
GenLoop(self, items, path, current_depth, i) ==
    IF i > Len(items) THEN <<>>
    ELSE LET entry == items[i]
             p == Append(path, entry.name)
             rest == GenLoop(self, items, path, current_depth, i + 1)
         IN
         IF should_exclude(self, entry.name) THEN rest
         ELSE IF entry.kind = "symlink" THEN <<Yield(p, "symlink", current_depth)>> \o rest
         ELSE IF entry.kind = "badmeta" THEN <<Yield(p, "error", current_depth)>> \o rest
         ELSE IF entry.kind = "dir"
         THEN <<Yield(p, "dir", current_depth)>>
              \o scan_generator(self, entry, p, current_depth + 1) \o rest
         ELSE IF entry.kind = "file" THEN <<Yield(p, "file", current_depth)>> \o rest
         ELSE rest

\* DirectoryScanner.scan_generator(self, path, current_depth) on the directory dir found at
\* path, run to exhaustion
scan_generator(self, dir, path, current_depth) ==
    IF AtMaxDepth(self, current_depth) THEN <<>>
    ELSE IF dir.listing # "ok" THEN <<>>
    ELSE GenLoop(self, LoopItems(self, dir.items), path, current_depth, 1)

RECURSIVE scan_generator_calls(_, _, _, _)
RECURSIVE GenCallsLoop(_, _, _, _, _)

\* the for loop of scan_generator questioning an entry before it looks at the
\* exclusion filter
GenCallsLoop_QueryFirst(self, items, path, current_depth, i) ==
    IF i > Len(items) THEN {}
    ELSE LET entry == items[i]
             p == Append(path, entry.name)
             rest == GenCallsLoop(self, items, path, current_depth, i + 1)
         IN {Call("is_symlink", p, current_depth)} \cup rest

\* the system calls of the for loop of scan_generator, from entry i on
GenCallsLoop(self, items, path, current_depth, i) ==
    IF i > Len(items) THEN {}
    ELSE LET entry == items[i]
             p == Append(path, entry.name)
             q(op) == Call(op, p, current_depth)
             rest == GenCallsLoop(self, items, path, current_depth, i + 1)
         IN
         IF should_exclude(self, entry.name) THEN rest
         ELSE IF entry.kind = "symlink" THEN {q("is_symlink")} \cup rest
         ELSE IF entry.kind = "badmeta" THEN {q("is_symlink"), q("is_dir")} \cup rest
         ELSE IF entry.kind = "dir"
         THEN {q("is_symlink"), q("is_dir")}
              \cup scan_generator_calls(self, entry, p, current_depth + 1) \cup rest
         ELSE {q("is_symlink"), q("is_dir"), q("is_file")} \cup rest

\* the system calls scan_generator makes when it is run to exhaustion
scan_generator_calls(self, dir, path, current_depth) ==
    IF AtMaxDepth(self, current_depth) THEN {}
    ELSE IF dir.listing # "ok" THEN {Call("scandir", path, current_depth)}
    ELSE {Call("scandir", path, current_depth)}
         \cup GenCallsLoop(self, LoopItems(self, dir.items), path, current_depth, 1)
         \cup BadLinkCall(self, dir.items, path, current_depth)

\* current_depth < 2 and len(entries) > 5
ParallelMaxDepth == 2
ParallelMinEntries == 5

RECURSIVE ListPhase(_, _, _, _, _, _)

\* the for loop of scan_parallel over os.scandir(path) from position i on: files,
\* symlinks and failed entries go into the structure, directories are collected
ListPhase(self, items, path, current_depth, i, acc) ==
    IF i > Len(items) THEN acc
    ELSE LET entry == items[i]
             p == Append(path, entry.name)
             q(op) == Call(op, p, current_depth)
         IN
         IF should_exclude(self, entry.name)
         THEN ListPhase(self, items, path, current_depth, i + 1, acc)
         ELSE IF entry.kind = "symlink"
         THEN ListPhase(self, items, path, current_depth, i + 1,
                [acc EXCEPT !.s = DictSet(@, Str(entry.name) \o " (symlink)", None),
                            !.calls = @ \cup {q("is_symlink")}])
         ELSE IF entry.kind = "badmeta"
         THEN ListPhase(self, items, path, current_depth, i + 1,
                [acc EXCEPT !.s = DictSet(@, Str(entry.name) \o " (access error)", None),
                            !.calls = @ \cup {q("is_symlink"), q("is_dir")}])
         ELSE IF entry.kind = "dir"
         THEN ListPhase(self, items, path, current_depth, i + 1,
                [acc EXCEPT !.entries = Append(@, entry),
                            !.calls = @ \cup {q("is_symlink"), q("is_dir")}])
         ELSE IF entry.kind = "file"
         THEN ListPhase(self, items, path, current_depth, i + 1,
                [acc EXCEPT !.s = DictSet(@, Str(entry.name), None),
                            !.calls = @ \cup {q("is_symlink"), q("is_dir"), q("is_file")}])
         ELSE ListPhase(self, items, path, current_depth, i + 1,
                [acc EXCEPT !.calls = @ \cup {q("is_symlink"), q("is_dir"), q("is_file")}])

Listed(self, dir, path, current_depth) ==
    LET l == ListPhase(self, LoopItems(self, dir.items), path, current_depth, 1,
                       [s |-> EmptyDict, entries |-> <<>>,
                        calls |-> {Call("scandir", path, current_depth)}])
    IN IF FirstBadLink(self, dir.items) = 0 THEN l
       ELSE [s |-> BadLinkDict(self, dir.items), entries |-> <<>>,
             calls |-> l.calls \cup BadLinkCall(self, dir.items, path, current_depth)]

RECURSIVE scan_parallel_below(_, _, _, _)
RECURSIVE BelowLoop(_, _, _, _, _, _)

\* for kind, name, p in entries: structure[name] = self.scan_parallel(p, current_depth + 1)
BelowLoop(self, entries, path, current_depth, i, acc) ==
    IF i > Len(entries) THEN acc
    ELSE LET sub == scan_parallel_below(self, entries[i], Append(path, entries[i].name),
                                        current_depth + 1)
         IN BelowLoop(self, entries, path, current_depth, i + 1,
                      [s |-> DictSet(acc.s, Str(entries[i].name), sub.s),
                       calls |-> acc.calls \cup sub.calls])

\* DirectoryScanner.scan_parallel(path, current_depth) for current_depth >= 2, where
\* nothing is handed to the pool and the whole call runs in the calling thread
scan_parallel_below(self, dir, path, current_depth) ==
    IF AtMaxDepth(self, current_depth)
    THEN [s |-> MaxDepthDict, calls |-> {}]
    ELSE IF dir.listing # "ok"
    THEN [s |-> ListingErrorDict(dir.listing),
          calls |-> {Call("scandir", path, current_depth)}]
    ELSE LET l == Listed(self, dir, path, current_depth)
         IN BelowLoop(self, l.entries, path, current_depth, 1, [s |-> l.s, calls |-> l.calls])

(* scan_parallel near the top runs as steps of the threads that execute it:   *)
(* thread 0 is the caller, threads 1..max_workers are the pool's workers.     *)
(* frames[t] is thread t's stack of scan_parallel invocations, innermost      *)
(* last; futures is the pool's work queue in submission order.                *)

\* the DirectoryScanner scanning fs
scanner ==
    [exclude_patterns |-> exclude_patterns, max_depth |-> max_depth,
     max_workers |-> max_workers]

MainThread == 0
Threads == 0..max_workers
Workers == 1..max_workers

Frame(dir, path, current_depth, fut) ==
    [dir |-> dir, path |-> path, depth |-> current_depth, fut |-> fut,
     phase |-> "enter", s |-> EmptyDict, entries |-> <<>>, idx |-> 1, pending |-> {}]

Future(dir, path, current_depth) ==
    [dir |-> dir, path |-> path, depth |-> current_depth,
     state |-> "queued", result |-> None]

Top(t) == frames[t][Len(frames[t])]
Running(t) == frames[t] # <<>>
SetTop(t, f) == [frames EXCEPT ![t] = [@ EXCEPT ![Len(@)] = f]]

notParallel ==
    <<fs, exclude_patterns, max_depth, max_workers, seqResult, genResult, cacheVars, svcVars>>

NotStarted == [state |-> "idle", s |-> None]
Returned(s) == [state |-> "done", s |-> s]

\* the innermost invocation of thread t returns structure s: to the invocation
\* that called it, to the future it runs, or to the caller of the scan
Return(t, s) ==
    LET stack == frames[t]
        n == Len(stack)
        f == stack[n]
    IN IF n > 1
       THEN /\ frames' = [frames EXCEPT ![t] =
                  [SubSeq(stack, 1, n - 1) EXCEPT ![n - 1] =
                      [@ EXCEPT !.s = DictSet(@, Str(f.dir.name), s), !.idx = @ + 1]]]
            /\ UNCHANGED <<futures, parResult>>
       ELSE IF t = MainThread
       THEN /\ frames' = [frames EXCEPT ![t] = <<>>]
            /\ parResult' = Returned(s)
            /\ UNCHANGED futures
       ELSE /\ frames' = [frames EXCEPT ![t] = <<>>]
            /\ futures' = [futures EXCEPT ![f.fut] = [@ EXCEPT !.state = "done", !.result = s]]
            /\ UNCHANGED parResult

\* scan(path, use_parallel=True): the caller enters scan_parallel(path, 0). The
\* caller's calls block, so its scans follow one another: the two single-threaded
\* scans in either order, then this one
ParStart ==
    /\ parResult.state = "idle"
    /\ seqResult.state = "done"
    /\ genResult.state = "done"
    /\ parResult' = [parResult EXCEPT !.state = "running"]
    /\ frames' = [frames EXCEPT ![MainThread] = <<Frame(fs, <<>>, 0, 0)>>]
    /\ UNCHANGED <<futures, parCalls>>
    /\ UNCHANGED notParallel

\* an invocation runs from its entry to its first call, submission or return
ParEnter(t) ==
    /\ Running(t)
    /\ UNCHANGED notParallel
    /\ Top(t).phase = "enter"
    /\ LET f == Top(t) IN
       IF AtMaxDepth(scanner, f.depth)
       THEN Return(t, MaxDepthDict) /\ UNCHANGED parCalls
       ELSE IF f.depth >= ParallelMaxDepth
       THEN LET r == scan_parallel_below(scanner, f.dir, f.path, f.depth)
            IN Return(t, r.s) /\ parCalls' = parCalls \cup r.calls
       ELSE IF f.dir.listing # "ok"
       THEN /\ Return(t, ListingErrorDict(f.dir.listing))
            /\ parCalls' = parCalls \cup {Call("scandir", f.path, f.depth)}
       ELSE LET l == Listed(scanner, f.dir, f.path, f.depth)
                n == Len(futures)
                k == Len(l.entries)
            IN /\ parCalls' = parCalls \cup l.calls
               /\ IF k > ParallelMinEntries
                  THEN /\ futures' = futures \o
                             [i \in 1..k |-> Future(l.entries[i],
                                                    Append(f.path, l.entries[i].name),
                                                    f.depth + 1)]
                       /\ frames' = SetTop(t, [f EXCEPT !.phase = "collect", !.s = l.s,
                                                        !.entries = l.entries,
                                                        !.pending = (n + 1)..(n + k)])
                       /\ UNCHANGED parResult
                  ELSE /\ frames' = SetTop(t, [f EXCEPT !.phase = "iter", !.s = l.s,
                                                        !.entries = l.entries])
                       /\ UNCHANGED <<futures, parResult>>

\* structure[name] = self.scan_parallel(p, current_depth + 1): the call
ParCall(t) ==
    /\ Running(t)
    /\ Top(t).phase = "iter"
    /\ Top(t).idx <= Len(Top(t).entries)
    /\ LET f == Top(t)
           child == f.entries[f.idx]
       IN frames' = [frames EXCEPT ![t] =
                        Append(@, Frame(child, Append(f.path, child.name), f.depth + 1, 0))]
    /\ UNCHANGED <<futures, parResult, parCalls>>
    /\ UNCHANGED notParallel

\* the sequential loop is over: return structure
ParLoopDone(t) ==
    /\ Running(t)
    /\ Top(t).phase = "iter"
    /\ Top(t).idx > Len(Top(t).entries)
    /\ Return(t, Top(t).s)
    /\ UNCHANGED parCalls
    /\ UNCHANGED notParallel

\* an idle worker of the pool takes the oldest queued future
WorkerTake(w) ==
    /\ ~Running(w)
    /\ \E i \in 1..Len(futures) :
          /\ futures[i].state = "queued"
          /\ \A j \in 1..(i - 1) : futures[j].state # "queued"
          /\ futures' = [futures EXCEPT ![i] = [@ EXCEPT !.state = "running"]]
          /\ frames' = [frames EXCEPT ![w] =
                           <<Frame(futures[i].dir, futures[i].path, futures[i].depth, i)>>]
    /\ UNCHANGED <<parResult, parCalls>>
    /\ UNCHANGED notParallel

\* for future in as_completed(future_to_dir): structure[dir_name] = future.result()
ParCollect(t) ==
    /\ Running(t)
    /\ Top(t).phase = "collect"
    /\ \E i \in Top(t).pending :
          /\ futures[i].state = "done"
          /\ frames' = SetTop(t, [Top(t) EXCEPT
                                    !.s = DictSet(@, Str(futures[i].dir.name), futures[i].result),
                                    !.pending = @ \ {i}])
    /\ UNCHANGED <<futures, parResult, parCalls>>
    /\ UNCHANGED notParallel

\* scan_parallel returning its structure while futures it submitted are still
\* queued or running
ParCollectDone_Early(t) ==
    /\ Running(t)
    /\ Top(t).phase = "collect"
    /\ Return(t, Top(t).s)
    /\ UNCHANGED parCalls
    /\ UNCHANGED notParallel

\* as_completed is exhausted: return structure
ParCollectDone(t) ==
    /\ Running(t)
    /\ Top(t).phase = "collect"
    /\ Top(t).pending = {}
    /\ Return(t, Top(t).s)
    /\ UNCHANGED parCalls
    /\ UNCHANGED notParallel

\* scan(path, use_parallel=False), run to its return
ScanSequential ==
    /\ seqResult.state = "idle"
    /\ LET r == scan_sequential(scanner, fs, <<>>, 0)
       IN seqResult' = [state |-> "done", s |-> r.s, calls |-> r.calls]
    /\ UNCHANGED <<fs, exclude_patterns, max_depth, max_workers, genResult, parResult,
                   parCalls, frames, futures, cacheVars, svcVars>>

\* list(scan_generator(scanner, path)), run to exhaustion
ScanGenerator ==
    /\ genResult.state = "idle"
    /\ genResult' = [state |-> "done", out |-> scan_generator(scanner, fs, <<>>, 0),
                     calls |-> scan_generator_calls(scanner, fs, <<>>, 0)]
    /\ UNCHANGED <<fs, exclude_patterns, max_depth, max_workers, seqResult, parResult,
                   parCalls, frames, futures, cacheVars, svcVars>>

-----------------------------------------------------------------------------
(* The directory trees scanned *)

MaxDepthArg == 3
\* ThreadPoolExecutor(max_workers=...): the pool sizes scanned with
WorkerCounts == {1, 2}

NameA == <<"a">>
NameASymlink == <<"a", " ", "(", "s", "y", "m", "l", "i", "n", "k", ")">>
Root(items) == DirEntry(<<"r">>, items)

\* every listing of at most two entries named a and "a (symlink)", in either
\* order, whose directories hold one of the listings in sub
ListingsOver(sub) ==
    LET E == UNION {{File(n, 1), Symlink(n, "dir")} \cup {DirEntry(n, c) : c \in sub}
                    : n \in {NameA, NameASymlink}}
    IN {<<>>} \cup {<<e>> : e \in E}
       \cup UNION {{<<e1, e2>> : e2 \in {e \in E : e.name # e1.name}} : e1 \in E}

SmallTrees ==
    {Root(c) : c \in ListingsOver({<<>>, <<File(NameA, 1)>>, <<Symlink(NameA, "file")>>})}

RECURSIVE Chain(_)
\* a chain of n nested directories d, each holding a file f beside the next d
Chain(n) ==
    IF n = 0 THEN <<File(<<"f">>, 1)>>
    ELSE <<File(<<"f">>, 1), DirEntry(<<"d">>, Chain(n - 1))>>

DeepTree == Root(Chain(5))

\* a directory with entries that are excluded, unreadable or fail
ErrorTree ==
    Root(<<File(<<".", "h">>, 1), File(<<"x", ".", "c">>, 1), File(<<"x", "y", "c">>, 1),
           UnlistableDir(<<"l">>, "perm"), UnlistableDir(<<"g">>, "gone"),
           UnlistableDir(<<"o">>, "oserr"), BadMeta(<<"b">>), Other(<<"p">>),
           Symlink(<<"k">>, "broken"),
           DirEntry(<<"s">>, <<File(<<"f">>, 2), UnlistableDir(<<"l">>, "perm")>>)>>)

DirNames == <<"1", "2", "3", "4", "5", "6">>
Six(items) == [i \in 1..6 |-> DirEntry(<<"d", DirNames[i]>>, items)]

\* six directories under the root: they go to the pool
WideTree == Root(Six(Chain(1)) \o <<File(<<"f">>, 1)>>)

\* six directories under the root, two of them with six directories: pool
\* workers submit to the pool too
WideNestedTree ==
    Root([i \in 1..6 |-> DirEntry(<<"d", DirNames[i]>>,
                                  IF i <= 2 THEN Six(<<File(<<"f">>, 1)>>)
                                  ELSE <<File(<<"f">>, 1)>>)])

\* six directories under the root, the first two of them unlistable: scans that
\* fail go to the pool
WideLockedTree ==
    Root([i \in 1..6 |->
            IF i = 1 THEN UnlistableDir(<<"d", DirNames[i]>>, "perm")
            ELSE IF i = 2 THEN UnlistableDir(<<"d", DirNames[i]>>, "gone")
            ELSE DirEntry(<<"d", DirNames[i]>>, <<File(<<"f">>, 1)>>)])

\* a directory with an entry on which is_symlink raises, at the top and one
\* level down, among entries that can be read
BadLinkTree ==
    Root(<<File(<<"f">>, 1), BadLink(<<"n">>, "perm"), File(<<"g">>, 1), BadMeta(<<"m">>),
           DirEntry(<<"s">>, <<File(<<"f">>, 1), BadLink(<<"n">>, "oserr")>>)>>)

Trees ==
    SmallTrees
    \cup {DeepTree, ErrorTree, WideTree, WideNestedTree, WideLockedTree, BadLinkTree}

ExcludeSets == {{}, {NameA, <<"*", ".", "c">>}}

IdleSeq == [state |-> "idle", s |-> None, calls |-> {}]
IdleGen == [state |-> "idle", out |-> <<>>, calls |-> {}]

\* a DirectoryScanner just constructed, about to scan the tree fs
InitScanner ==
    /\ fs \in Trees
    /\ exclude_patterns \in ExcludeSets
    /\ max_depth \in 0..MaxDepthArg
    /\ max_workers \in IF fs \in SmallTrees THEN {1} ELSE WorkerCounts
    /\ seqResult = IdleSeq
    /\ genResult = IdleGen
    /\ parResult = NotStarted
    /\ parCalls = {}
    /\ frames = [t \in Threads |-> <<>>]
    /\ futures = <<>>

\* no scanner in use
NoScanner ==
    /\ fs = Root(<<>>)
    /\ exclude_patterns = {}
    /\ max_depth = 0
    /\ max_workers = 1
    /\ seqResult = IdleSeq
    /\ genResult = IdleGen
    /\ parResult = NotStarted
    /\ parCalls = {}
    /\ frames = [t \in 0..1 |-> <<>>]
    /\ futures = <<>>

\* no cache in use
NoCache ==
    /\ cache = <<>>
    /\ stats = ZeroStats
    /\ max_entries = 1
    /\ default_ttl = 1
    /\ now = 0
    /\ lastOp = Op("init", "")
    /\ getCalls = 0
    /\ getsSinceClear = 0
    /\ steps = 0

-----------------------------------------------------------------------------
(* DirectoryNode and FileInfo (web_visualizer/models.py). Names are kept as  *)
(* character sequences, ids and paths as strings.                            *)

\* Optional[...] fields
Absent == [some |-> FALSE]
Present(v) == [some |-> TRUE, v |-> v]

\* str(path): a path is the sequence of its names from the scanned root down
RECURSIVE PathStr(_)
PathStr(path) == IF path = <<>> THEN "" ELSE "/" \o Str(Head(path)) \o PathStr(Tail(path))

HasDot(name) == \E i \in 1..Len(name) : name[i] = "."
LastDot(name) ==
    CHOOSE i \in 1..Len(name) : name[i] = "." /\ \A j \in (i + 1)..Len(name) : name[j] # "."

\* FileInfo.extract_extension, the "before" validator of extension, which
\* pydantic runs when a value for extension is passed in and not for the
\* default: name.split('.')[-1].lower() (the names here are lower case)
extract_extension(v, name) ==
    IF ~v.some /\ HasDot(name)
    THEN Present(Str(SubSeq(name, LastDot(name) + 1, Len(name))))
    ELSE v

\* FileInfo(name=, path=, size=, modified=, is_binary=): extension is left at its
\* default. modified, is_binary and mime_type are left out: each is stored and
\* returned as given
FileInfo(name, path, size) ==
    [cls |-> "FileInfo", name |-> name, path |-> PathStr(path), size |-> Present(size),
     extension |-> Absent]

\* cls(id=str(path), name=path.name, path=str(path), type=, parent_id=, depth=, size=)
DirectoryNode(path, type, parent_id, depth, size) ==
    [cls |-> "DirectoryNode", id |-> PathStr(path), name |-> path[Len(path)],
     path |-> PathStr(path), type |-> type, parent_id |-> parent_id, children |-> <<>>,
     file_info |-> Absent, depth |-> depth, size |-> size, file_count |-> 0, dir_count |-> 0]

RECURSIVE Find(_, _)
\* the entry reached from directory entry dir by the names
Find(dir, names) ==
    IF names = <<>> THEN Present(dir)
    ELSE IF dir.kind = "dir" /\ \E i \in 1..Len(dir.items) : dir.items[i].name = Head(names)
    THEN Find(dir.items[CHOOSE i \in 1..Len(dir.items) : dir.items[i].name = Head(names)],
              Tail(names))
    ELSE Absent

\* what path names in the filesystem
Resolve(path) ==
    IF path = <<>> \/ Head(path) # fs.name THEN Absent ELSE Find(fs, Tail(path))

\* DirectoryNode.from_path
from_path(path, parent_id, depth) ==
    LET e == Resolve(path) IN
    IF \/ ~e.some
       \/ e.v.kind \in {"badmeta", "badlink"}
       \/ (e.v.kind = "symlink" /\ e.v.target = "broken")
    THEN DirectoryNode(path, "error", parent_id, depth, Absent)
    ELSE LET is_symlink == e.v.kind = "symlink"
             is_dir == e.v.kind = "dir" \/ (is_symlink /\ e.v.target = "dir")
             node == DirectoryNode(path,
                                   IF is_symlink THEN "symlink"
                                   ELSE IF is_dir THEN "directory" ELSE "file",
                                   parent_id, depth,
                                   IF is_dir THEN Absent ELSE Present(e.v.size))
         IN IF ~is_dir /\ ~is_symlink
            THEN [node EXCEPT !.file_info = Present(FileInfo(path[Len(path)], path, e.v.size))]
            ELSE node

\* add_child keeping only the direct tally: the counts of a directory child are
\* not added to the parent's
add_child_OwnTallyOnly(self, child) ==
    LET c == [child EXCEPT !.parent_id = Present(self.id)]
        s1 == [self EXCEPT !.children = Append(@, c)]
    IN IF c.type = "file" THEN [s1 EXCEPT !.file_count = @ + 1]
       ELSE IF c.type = "directory" THEN [s1 EXCEPT !.dir_count = @ + 1]
       ELSE s1

\* DirectoryNode.add_child
add_child(self, child) ==
    LET c == [child EXCEPT !.parent_id = Present(self.id)]
        s1 == [self EXCEPT !.children = Append(@, c)]
    IN IF c.type = "file" THEN [s1 EXCEPT !.file_count = @ + 1]
       ELSE IF c.type = "directory"
       THEN [s1 EXCEPT !.dir_count = @ + 1 + c.dir_count, !.file_count = @ + c.file_count]
       ELSE s1

RECURSIVE ToDict(_)
\* root_node.dict(): the node and everything below it as plain dicts
ToDict(node) ==
    [node EXCEPT !.cls = "dict",
                 !.children = [i \in DOMAIN @ |-> ToDict(@[i])],
                 !.file_info = IF @.some THEN Present([@.v EXCEPT !.cls = "dict"]) ELSE @]

RECURSIVE FromDict(_)
\* DirectoryNode(**cached_result): pydantic validates the dict, and the dicts
\* below it, into models again
FromDict(d) ==
    [d EXCEPT !.cls = "DirectoryNode",
              !.children = [i \in DOMAIN @ |-> FromDict(@[i])],
              !.file_info = IF @.some
                            THEN Present([@.v EXCEPT
                                            !.cls = "FileInfo",
                                            !.extension = extract_extension(@, d.file_info.v.name)])
                            ELSE @]

-----------------------------------------------------------------------------
(* DirectoryService (web_visualizer/services/directory_service.py) *)

\* src/config/visualization.py: DEFAULT_EXCLUDE_DIRS
DEFAULT_EXCLUDE_DIRS ==
    {<<".", "g", "i", "t">>, <<"_", "_", "p", "y", "c", "a", "c", "h", "e", "_", "_">>,
     <<".", "D", "S", "_", "S", "t", "o", "r", "e">>,
     <<"n", "o", "d", "e", "_", "m", "o", "d", "u", "l", "e", "s">>, <<".", "v", "e", "n", "v">>,
     <<"v", "e", "n", "v">>, <<"e", "n", "v">>, <<"b", "u", "i", "l", "d">>,
     <<"d", "i", "s", "t">>, <<"t", "a", "r", "g", "e", "t">>,
     <<"*", ".", "e", "g", "g", "-", "i", "n", "f", "o">>, <<"c", "a", "c", "h", "e">>,
     <<".", "c", "a", "c", "h", "e">>, <<"s", "e", "c", "r", "e", "t", "s">>,
     <<".", "i", "d", "e", "a">>, <<".", "v", "s", "c", "o", "d", "e">>,
     <<".", "t", "r", "u", "n", "k">>, <<".", "m", "y", "p", "y", "_", "c", "a", "c", "h", "e">>,
     <<".", "p", "y", "t", "e", "s", "t", "_", "c", "a", "c", "h", "e">>,
     <<".", "r", "u", "f", "f", "_", "c", "a", "c", "h", "e">>}

\* WebVisualizerConfig defaults; CacheService() defaults; the ttl of cached stats
ConfigMaxDepth == 10
ConfigCacheTtlSeconds == 300
DefaultMaxEntries == 1000
DefaultTtlSeconds == 300
StatsTtlSeconds == 60
StatsMaxDepth == 1
ScannerDefaultWorkers == 4

\* a key made of the path and the depth with nothing between them
generate_cache_key_NoSeparator(path, depth) ==
    "md5(" \o path \o ToString(depth) \o ":<h>)"

\* DirectoryService._generate_cache_key: md5 of f"{path}:{max_depth}:{hash(...)}",
\* with the hash of the exclusion set, fixed within a process, written <h>
generate_cache_key(path, depth) ==
    "md5(" \o path \o ":" \o ToString(depth) \o ":<h>)"

RECURSIVE build_tree_from_path(_, _, _, _, _)
RECURSIVE BuildLoop(_, _, _, _, _, _)

\* the for loop of _build_tree_from_path over what scan_generator yields, from
\* position i on
BuildLoop(self, gen, maxd, current_depth, root, i) ==
    IF i > Len(gen) THEN root
    ELSE IF gen[i].depth # current_depth + 1
    THEN BuildLoop(self, gen, maxd, current_depth, root, i + 1)
    ELSE LET depth == gen[i].depth
             child_node == from_path(gen[i].path, Present(root.id), depth)
             built == IF child_node.type = "directory" /\ depth < maxd
                      THEN build_tree_from_path(self, gen[i].path, maxd, depth,
                                                Present(root.id))
                      ELSE child_node
         IN BuildLoop(self, gen, maxd, current_depth, add_child(root, built), i + 1)

\* DirectoryService._build_tree_from_path(path, scanner, max_depth, current_depth,
\* parent_id)
build_tree_from_path(self, path, maxd, current_depth, parent_id) ==
    LET root == from_path(path, parent_id, current_depth) IN
    IF current_depth >= maxd \/ root.type # "directory" THEN root
    ELSE BuildLoop(self, scan_generator(self, Resolve(path).v, path, current_depth),
                   maxd, current_depth, root, 1)

\* DirectoryService._scan_directory_sync
scan_directory_sync(path, maxd) ==
    build_tree_from_path([exclude_patterns |-> config.exclude_patterns,
                          max_depth |-> maxd, max_workers |-> 1],
                         path, maxd, 0, Absent)

RECURSIVE StatsLoop(_, _, _)
\* the for loop of _calculate_stats_sync. file_types, largest_files and
\* recent_files are left out
StatsLoop(gen, i, acc) ==
    IF i > Len(gen) THEN acc
    ELSE IF gen[i].type = "file"
    THEN StatsLoop(gen, i + 1,
                   [acc EXCEPT !.total_files = @ + 1,
                               !.total_size = @ + Resolve(gen[i].path).v.size])
    ELSE IF gen[i].type = "dir"
    THEN StatsLoop(gen, i + 1, [acc EXCEPT !.total_directories = @ + 1])
    ELSE StatsLoop(gen, i + 1, acc)

\* DirectoryService._calculate_stats_sync
calculate_stats_sync(path) ==
    StatsLoop(scan_generator([exclude_patterns |-> config.exclude_patterns,
                              max_depth |-> StatsMaxDepth,
                              max_workers |-> ScannerDefaultWorkers],
                             Resolve(path).v, path, 0),
              1,
              [cls |-> "dict", total_files |-> 0, total_directories |-> 0, total_size |-> 0])

\* max_depth or config.max_depth
EffectiveDepth(max_depth_arg) ==
    IF max_depth_arg.some /\ max_depth_arg.v # 0 THEN max_depth_arg.v ELSE config.max_depth

\* if cached_result: a dict with keys is true
Truthy(value) == value.cls = "dict"

(* A call of the service is a coroutine: it runs from one await to the next  *)
(* in one step. calls[c] is the call caller c has in progress or made last.   *)

Callers == {1, 2}
MaxRequests == 3

\* holds: the caller is inside an `async with self._lock` of the cache;
\* started: a worker of the pool has taken the call's task; cancelled: the
\* call was cancelled while its task was running
NoCall ==
    [pc |-> "idle", op |-> "", path |-> <<>>, max_depth |-> Absent, use_cache |-> FALSE,
     key |-> "", result |-> Absent, error |-> "", req |-> 0,
     holds |-> FALSE, started |-> FALSE, cancelled |-> FALSE]

InFlight(c) == calls[c].pc \in {"executor", "scanned"}

\* callers are interchangeable: the second makes a call only while the first
\* has one in progress
CanCall(c) ==
    /\ ~InFlight(c)
    /\ requests < MaxRequests
    /\ c = 1 \/ InFlight(1)

\* a call that ends has left every `async with` it entered
Raise(call, error) == [call EXCEPT !.pc = "raised", !.error = error, !.holds = FALSE]
ReturnValue(call, value) ==
    [call EXCEPT !.pc = "returned", !.result = Present(value), !.holds = FALSE]

\* path_obj.is_dir() on what the path names
IsDir(e) == e.kind = "dir" \/ (e.kind = "symlink" /\ e.target = "dir")

\* path_obj.exists() and path_obj.is_dir() both hold for the path
IsValidDirectory(path) == Resolve(path).some /\ IsDir(Resolve(path).v)

\* scan_directory looking in the cache before it validates the path, the order
\* get_directory_stats has
ScanDirectory_CacheFirst(c, path, max_depth_arg, use_cache) ==
    /\ CanCall(c)
    /\ requests' = requests + 1
    /\ LET call == [NoCall EXCEPT !.op = "scan", !.path = path, !.max_depth = max_depth_arg,
                                  !.use_cache = use_cache, !.req = requests + 1]
           e == Resolve(path)
           cache_key == generate_cache_key(PathStr(path), EffectiveDepth(max_depth_arg))
           got == IF use_cache THEN CacheGet(cache, stats, cache_key, now)
                  ELSE [cache |-> cache, stats |-> stats, result |-> NoResult]
       IN /\ cache' = got.cache
          /\ stats' = got.stats
          /\ calls' = [calls EXCEPT ![c] =
                IF got.result.some /\ Truthy(got.result.value)
                THEN ReturnValue([call EXCEPT !.key = cache_key], FromDict(got.result.value))
                ELSE IF ~e.some THEN Raise(call, "FileNotFoundError")
                ELSE IF ~IsDir(e.v) THEN Raise(call, "ValueError")
                ELSE [call EXCEPT !.key = cache_key, !.pc = "executor"]]
    /\ UNCHANGED <<traversals, returnedFor, config, now>>
    /\ UNCHANGED <<max_entries, default_ttl, lastOp, getCalls, getsSinceClear, steps, scanVars>>

\* scan_directory(path, max_depth, use_cache) up to its return from the cache, its
\* exception, or its wait for the worker pool
ScanDirectory(c, path, max_depth_arg, use_cache) ==
    /\ CanCall(c)
    /\ requests' = requests + 1
    /\ LET call == [NoCall EXCEPT !.op = "scan", !.path = path, !.max_depth = max_depth_arg,
                                  !.use_cache = use_cache, !.req = requests + 1]
           e == Resolve(path)
           cache_key == generate_cache_key(PathStr(path), EffectiveDepth(max_depth_arg))
           got == CacheGet(cache, stats, cache_key, now)
       IN
       IF ~e.some
       THEN /\ calls' = [calls EXCEPT ![c] = Raise(call, "FileNotFoundError")]
            /\ UNCHANGED <<cache, stats>>
       ELSE IF ~IsDir(e.v)
       THEN /\ calls' = [calls EXCEPT ![c] = Raise(call, "ValueError")]
            /\ UNCHANGED <<cache, stats>>
       ELSE IF use_cache
       THEN /\ cache' = got.cache
            /\ stats' = got.stats
            /\ calls' = [calls EXCEPT ![c] =
                  IF got.result.some /\ Truthy(got.result.value)
                  THEN ReturnValue([call EXCEPT !.key = cache_key],
                                   FromDict(got.result.value))
                  ELSE [call EXCEPT !.key = cache_key, !.pc = "executor"]]
       ELSE /\ calls' = [calls EXCEPT ![c] = [call EXCEPT !.key = cache_key, !.pc = "executor"]]
            /\ UNCHANGED <<cache, stats>>
    /\ UNCHANGED <<traversals, returnedFor, config, now>>
    /\ UNCHANGED <<max_entries, default_ttl, lastOp, getCalls, getsSinceClear, steps, scanVars>>

\* a worker of the service's pool runs _scan_directory_sync
RunScan(c) ==
    /\ calls[c].pc = "executor"
    /\ calls[c].op = "scan"
    /\ LET call == calls[c]
           root_node == scan_directory_sync(call.path, EffectiveDepth(call.max_depth))
       IN calls' = [calls EXCEPT ![c] =
                       [call EXCEPT !.pc = "scanned", !.result = Present(root_node)]]
    /\ traversals' = traversals + 1
    /\ UNCHANGED <<requests, returnedFor, config, cacheVars, scanVars>>

\* scan_directory storing the tree whatever use_cache is
FinishScan_AlwaysStore(c) ==
    /\ calls[c].pc = "scanned"
    /\ calls[c].op = "scan"
    /\ LET call == calls[c]
           root_node == call.result.v
           cache_key == generate_cache_key(PathStr(call.path), EffectiveDepth(call.max_depth))
           put == CacheSet(cache, stats, cache_key, ToDict(root_node),
                           [given |-> TRUE, v |-> config.cache_ttl_seconds], now)
       IN /\ cache' = put.cache
          /\ stats' = put.stats
          /\ calls' = [calls EXCEPT ![c] = ReturnValue(call, root_node)]
          /\ returnedFor' = [k \in DOMAIN returnedFor \cup {cache_key} |->
                                IF k = cache_key
                                THEN [max_depth |-> call.max_depth, tree |-> root_node]
                                ELSE returnedFor[k]]
    /\ UNCHANGED <<requests, traversals, config, now>>
    /\ UNCHANGED <<max_entries, default_ttl, lastOp, getCalls, getsSinceClear, steps, scanVars>>

\* scan_directory after the worker pool: cache the result and return it
FinishScan(c) ==
    /\ calls[c].pc = "scanned"
    /\ calls[c].op = "scan"
    /\ LET call == calls[c]
           root_node == call.result.v
           put == CacheSet(cache, stats, call.key, ToDict(root_node),
                           [given |-> TRUE, v |-> config.cache_ttl_seconds], now)
       IN IF call.use_cache
          THEN /\ cache' = put.cache
               /\ stats' = put.stats
               /\ calls' = [calls EXCEPT ![c] =
                     IF put.raised THEN Raise(call, "RuntimeError")
                     ELSE ReturnValue(call, root_node)]
               /\ returnedFor' = IF put.raised THEN returnedFor
                                 ELSE [k \in DOMAIN returnedFor \cup {call.key} |->
                                          IF k = call.key
                                          THEN [max_depth |-> call.max_depth, tree |-> root_node]
                                          ELSE returnedFor[k]]
          ELSE /\ calls' = [calls EXCEPT ![c] = ReturnValue(call, root_node)]
               /\ UNCHANGED <<cache, stats, returnedFor>>
    /\ UNCHANGED <<requests, traversals, config, now>>
    /\ UNCHANGED <<max_entries, default_ttl, lastOp, getCalls, getsSinceClear, steps, scanVars>>

\* scan_directory when `await self.cache.get(cache_key)` raises: nothing around
\* the call catches it, so the exception ends scan_directory
ScanDirectoryGetRaises(c, path, max_depth_arg) ==
    /\ CanCall(c)
    /\ IsValidDirectory(path)
    /\ requests' = requests + 1
    /\ calls' = [calls EXCEPT ![c] =
          Raise([NoCall EXCEPT !.op = "scan", !.path = path, !.max_depth = max_depth_arg,
                               !.use_cache = TRUE, !.req = requests + 1,
                               !.key = generate_cache_key(PathStr(path),
                                                          EffectiveDepth(max_depth_arg))],
                "CacheError")]
    /\ UNCHANGED <<traversals, returnedFor, config, cacheVars, scanVars>>

\* scan_directory when the cache has the key and DirectoryNode(**cached_result)
\* raises: the lookup is counted and the exception ends scan_directory
ScanDirectoryRebuildRaises(c, path, max_depth_arg) ==
    /\ CanCall(c)
    /\ IsValidDirectory(path)
    /\ LET cache_key == generate_cache_key(PathStr(path), EffectiveDepth(max_depth_arg))
           got == CacheGet(cache, stats, cache_key, now)
       IN /\ got.result.some /\ Truthy(got.result.value)
          /\ cache' = got.cache
          /\ stats' = got.stats
          /\ calls' = [calls EXCEPT ![c] =
                Raise([NoCall EXCEPT !.op = "scan", !.path = path,
                                     !.max_depth = max_depth_arg, !.use_cache = TRUE,
                                     !.req = requests + 1, !.key = cache_key],
                      "ValidationError")]
    /\ requests' = requests + 1
    /\ UNCHANGED <<traversals, returnedFor, config, now>>
    /\ UNCHANGED <<max_entries, default_ttl, lastOp, getCalls, getsSinceClear, steps, scanVars>>

\* scan_directory after the worker pool when `await self.cache.set(...)` raises:
\* the tree just built is dropped and the exception ends scan_directory
FinishScanSetRaises(c) ==
    /\ calls[c].pc = "scanned"
    /\ calls[c].op = "scan"
    /\ calls[c].use_cache
    /\ calls' = [calls EXCEPT ![c] = Raise([calls[c] EXCEPT !.result = Absent], "CacheError")]
    /\ UNCHANGED <<requests, traversals, returnedFor, config, cacheVars, scanVars>>

\* get_directory_stats(path) up to its return from the cache, its exception, or
\* its wait for the worker pool
GetDirectoryStats(c, path) ==
    /\ CanCall(c)
    /\ requests' = requests + 1
    /\ LET cache_key == "stats:" \o generate_cache_key(PathStr(path), 1)
           call == [NoCall EXCEPT !.op = "stats", !.path = path, !.key = cache_key,
                                  !.req = requests + 1]
           got == CacheGet(cache, stats, cache_key, now)
           e == Resolve(path)
       IN /\ cache' = got.cache
          /\ stats' = got.stats
          /\ calls' = [calls EXCEPT ![c] =
                IF got.result.some /\ Truthy(got.result.value)
                THEN ReturnValue(call, got.result.value)
                ELSE IF ~e.some \/ ~IsDir(e.v) THEN Raise(call, "ValueError")
                ELSE [call EXCEPT !.pc = "executor"]]
    /\ UNCHANGED <<traversals, returnedFor, config, now>>
    /\ UNCHANGED <<max_entries, default_ttl, lastOp, getCalls, getsSinceClear, steps, scanVars>>

\* a worker of the service's pool runs _calculate_stats_sync
RunStats(c) ==
    /\ calls[c].pc = "executor"
    /\ calls[c].op = "stats"
    /\ LET call == calls[c]
       IN calls' = [calls EXCEPT ![c] =
                       [call EXCEPT !.pc = "scanned",
                                    !.result = Present(calculate_stats_sync(call.path))]]
    /\ UNCHANGED <<requests, traversals, returnedFor, config, cacheVars, scanVars>>

\* get_directory_stats after the worker pool: cache the stats and return them
FinishStats(c) ==
    /\ calls[c].pc = "scanned"
    /\ calls[c].op = "stats"
    /\ LET call == calls[c]
           put == CacheSet(cache, stats, call.key, call.result.v,
                           [given |-> TRUE, v |-> StatsTtlSeconds], now)
       IN /\ cache' = put.cache
          /\ stats' = put.stats
          /\ calls' = [calls EXCEPT ![c] =
                IF put.raised THEN Raise(call, "RuntimeError")
                ELSE ReturnValue(call, call.result.v)]
    /\ UNCHANGED <<requests, traversals, returnedFor, config, now>>
    /\ UNCHANGED <<max_entries, default_ttl, lastOp, getCalls, getsSinceClear, steps, scanVars>>

\* api/routes.py: await directory_service.cache.clear()
ClearServiceCache ==
    /\ requests < MaxRequests
    /\ requests' = requests + 1
    /\ cache' = <<>>
    /\ stats' = ZeroStats
    /\ UNCHANGED <<calls, traversals, returnedFor, config, now>>
    /\ UNCHANGED <<max_entries, default_ttl, lastOp, getCalls, getsSinceClear, steps, scanVars>>

\* time passes between requests: long enough for cached stats, or for cached
\* trees too, to expire
ServiceElapse == {StatsTtlSeconds + 1, ConfigCacheTtlSeconds + 1}

TimePasses(dt) ==
    /\ requests < MaxRequests
    /\ requests' = requests + 1
    /\ now' = now + dt
    /\ UNCHANGED <<calls, traversals, returnedFor, config>>
    /\ UNCHANGED <<cache, stats, max_entries, default_ttl, lastOp, getCalls, getsSinceClear,
                   steps, scanVars>>

(* The steps below are those of the same calls seen one await at a time: the  *)
(* entry into the cache's lock, the pool taking a task, a cancellation.        *)

\* `async with self._lock` with every caller outside: asyncio.Lock.acquire.
\* The callers that reach it are about to call cache.get or cache.set
AcquireLock_Unguarded(c) ==
    /\ \/ CanCall(c)
       \/ /\ calls[c].pc = "scanned"
          /\ ~calls[c].cancelled
          /\ calls[c].op = "stats" \/ calls[c].use_cache
    /\ ~calls[c].holds
    /\ calls' = [calls EXCEPT ![c] = [calls[c] EXCEPT !.holds = TRUE]]
    /\ UNCHANGED <<requests, traversals, returnedFor, config, cacheVars, scanVars>>

AcquireLock(c) ==
    /\ \A d \in Callers : ~calls[d].holds
    /\ \/ CanCall(c)
       \/ /\ calls[c].pc = "scanned"
          /\ ~calls[c].cancelled
          /\ calls[c].op = "stats" \/ calls[c].use_cache
    /\ calls' = [calls EXCEPT ![c] = [calls[c] EXCEPT !.holds = TRUE]]
    /\ UNCHANGED <<requests, traversals, returnedFor, config, cacheVars, scanVars>>

\* a worker of self._executor takes the task run_in_executor submitted
PoolTake(c) ==
    /\ calls[c].pc = "executor"
    /\ ~calls[c].started
    /\ calls' = [calls EXCEPT ![c] = [calls[c] EXCEPT !.started = TRUE]]
    /\ UNCHANGED <<requests, traversals, returnedFor, config, cacheVars, scanVars>>

\* the call is cancelled at `await loop.run_in_executor(...)`: CancelledError is
\* raised in it, and the future of the pool is cancelled with it, which takes
\* the task out of the pool unless a worker has already taken it
Cancel(c) ==
    /\ calls[c].pc = "executor"
    /\ ~calls[c].cancelled
    /\ calls' = [calls EXCEPT ![c] =
          IF calls[c].started THEN [calls[c] EXCEPT !.cancelled = TRUE]
          ELSE Raise(calls[c], "CancelledError")]
    /\ UNCHANGED <<requests, traversals, returnedFor, config, cacheVars, scanVars>>

\* the task of a cancelled call finishes: nothing awaits its result
DiscardResult(c) ==
    /\ calls[c].pc = "scanned"
    /\ calls[c].cancelled
    /\ calls' = [calls EXCEPT ![c] = Raise([calls[c] EXCEPT !.result = Absent], "CancelledError")]
    /\ UNCHANGED <<requests, traversals, returnedFor, config, cacheVars, scanVars>>

\* the directory is moved away between two requests
MoveDirectory ==
    /\ fs.name = <<"r">>
    /\ \A c \in Callers : ~InFlight(c)
    /\ fs' = [fs EXCEPT !.name = <<"m", "o", "v", "e", "d">>]
    /\ UNCHANGED <<exclude_patterns, max_depth, max_workers, seqResult, genResult,
                   parResult, parCalls, frames, futures, cacheVars, svcVars>>

-----------------------------------------------------------------------------
(* The directories the service is asked about *)

\* the directory of the service's tests: two files and subdir/nested_file.md
TestTree ==
    LET file1_txt == <<"f", "i", "l", "e", "1", ".", "t", "x", "t">>
        file2_py == <<"f", "i", "l", "e", "2", ".", "p", "y">>
        subdir == <<"s", "u", "b", "d", "i", "r">>
        nested_file_md == <<"n", "e", "s", "t", "e", "d", "_", "f", "i", "l", "e", ".", "m", "d">>
    IN Root(<<File(file1_txt, 1), File(file2_py, 1),
              DirEntry(subdir, <<File(nested_file_md, 1)>>)>>)

\* a.txt of 10 bytes, sub/b.py of 20 bytes and an unreadable locked/
StatsTree ==
    LET a_txt == <<"a", ".", "t", "x", "t">>
        sub == <<"s", "u", "b">>
        b_py == <<"b", ".", "p", "y">>
        locked == <<"l", "o", "c", "k", "e", "d">>
    IN Root(<<File(a_txt, 10), DirEntry(sub, <<File(b_py, 20)>>),
              UnlistableDir(locked, "perm")>>)

\* three levels of directories with a symlink and an excluded directory
NestedTree ==
    LET a_txt == <<"a", ".", "t", "x", "t">>
        sub == <<"s", "u", "b">>
        link == <<"l", "i", "n", "k">>
        build == <<"b", "u", "i", "l", "d">>
        inner == <<"i", "n", "n", "e", "r">>
        d_md == <<"d", ".", "m", "d">>
        leaf == <<"l", "e", "a", "f">>
        gone == <<"g", "o", "n", "e">>
    IN Root(<<File(a_txt, 1),
              DirEntry(sub,
                 <<File(<<"b">>, 2), Symlink(link, "dir"), Symlink(gone, "broken"),
                   DirEntry(build, <<File(<<"c">>, 1)>>),
                   DirEntry(inner, <<File(d_md, 3),
                                     DirEntry(leaf, <<File(<<"e">>, 1)>>)>>)>>)>>)

\* a directory that exists and whose listing is refused
LockedRootTree == UnlistableDir(<<"r">>, "perm")

ServiceTrees == {TestTree, StatsTree, NestedTree}

\* the directories scanned while the listing of the root or the cache fails
FaultTrees == {TestTree, LockedRootTree}

RootPath == <<<<"r">>>>
MissingPath == <<<<"r">>, <<"m", "i", "s", "s", "i", "n", "g">>>>
FilePath == <<<<"r">>, <<"a", ".", "t", "x", "t">>>>

DepthArgs == {Absent, Present(0), Present(2)}

\* the arguments of the scan_directory calls made
ScanArgs ==
    {[path |-> RootPath, max_depth |-> d, use_cache |-> u]
       : d \in DepthArgs \ {Absent}, u \in BOOLEAN}
    \cup {[path |-> RootPath, max_depth |-> Absent, use_cache |-> TRUE]}
    \cup {[path |-> p, max_depth |-> Absent, use_cache |-> u]
            : p \in {MissingPath, FilePath}, u \in BOOLEAN}

\* the arguments of the get_directory_stats calls made
StatsPaths == {RootPath, MissingPath}

Configs ==
    {[max_depth |-> ConfigMaxDepth, exclude_patterns |-> DEFAULT_EXCLUDE_DIRS,
      cache_ttl_seconds |-> ConfigCacheTtlSeconds]}

\* no service in use
NoService ==
    /\ calls = [c \in Callers |-> NoCall]
    /\ requests = 0
    /\ traversals = 0
    /\ returnedFor = <<>>
    /\ config \in Configs

\* a DirectoryService just constructed, with its CacheService()
ServiceStart ==
    /\ exclude_patterns = {}
    /\ max_depth = 0
    /\ max_workers = 1
    /\ seqResult = IdleSeq
    /\ genResult = IdleGen
    /\ parResult = NotStarted
    /\ parCalls = {}
    /\ frames = [t \in 0..1 |-> <<>>]
    /\ futures = <<>>
    /\ cache = <<>>
    /\ stats = ZeroStats
    /\ max_entries = DefaultMaxEntries
    /\ default_ttl = DefaultTtlSeconds
    /\ now = 0
    /\ lastOp = Op("init", "")
    /\ getCalls = 0
    /\ getsSinceClear = 0
    /\ steps = 0
    /\ NoService

InitService == fs \in ServiceTrees /\ ServiceStart

NextService ==
    \/ \E c \in Callers, a \in ScanArgs : ScanDirectory(c, a.path, a.max_depth, a.use_cache)
    \/ \E c \in Callers : RunScan(c)
    \/ \E c \in Callers : FinishScan(c)
    \/ \E c \in Callers, path \in StatsPaths : GetDirectoryStats(c, path)
    \/ \E c \in Callers : RunStats(c)
    \/ \E c \in Callers : FinishStats(c)
    \/ ClearServiceCache
    \/ \E dt \in ServiceElapse : TimePasses(dt)

SpecService == InitService /\ [][NextService]_vars

\* the service while the listing of the root, or an operation of its cache, may
\* fail
InitServiceFaults == fs \in FaultTrees /\ ServiceStart

NextServiceFaults ==
    \/ \E c \in Callers, a \in ScanArgs : ScanDirectory(c, a.path, a.max_depth, a.use_cache)
    \/ \E c \in Callers, d \in DepthArgs : ScanDirectoryGetRaises(c, RootPath, d)
    \/ \E c \in Callers, d \in DepthArgs : ScanDirectoryRebuildRaises(c, RootPath, d)
    \/ \E c \in Callers : RunScan(c)
    \/ \E c \in Callers : FinishScan(c)
    \/ \E c \in Callers : FinishScanSetRaises(c)
    \/ \E c \in Callers, path \in StatsPaths : GetDirectoryStats(c, path)
    \/ \E c \in Callers : RunStats(c)
    \/ \E c \in Callers : FinishStats(c)
    \/ ClearServiceCache
    \/ \E dt \in ServiceElapse : TimePasses(dt)

SpecServiceFaults == InitServiceFaults /\ [][NextServiceFaults]_vars

\* the service one await at a time, with cancellations, over a directory that
\* may be moved away
InitServiceAsync == fs = TestTree /\ ServiceStart

NextServiceAsync ==
    \/ \E c \in Callers : AcquireLock(c)
    \/ \E c \in Callers, a \in ScanArgs :
          /\ calls[c].holds = (a.use_cache /\ IsValidDirectory(a.path))
          /\ ScanDirectory(c, a.path, a.max_depth, a.use_cache)
    \/ \E c \in Callers, path \in StatsPaths : calls[c].holds /\ GetDirectoryStats(c, path)
    \/ \E c \in Callers : PoolTake(c)
    \/ \E c \in Callers : calls[c].started /\ RunScan(c)
    \/ \E c \in Callers : calls[c].started /\ RunStats(c)
    \/ \E c \in Callers :
          calls[c].holds = calls[c].use_cache /\ ~calls[c].cancelled /\ FinishScan(c)
    \/ \E c \in Callers : calls[c].holds /\ FinishStats(c)
    \/ \E c \in Callers : Cancel(c)
    \/ \E c \in Callers : DiscardResult(c)
    \/ MoveDirectory

SpecServiceAsync == InitServiceAsync /\ [][NextServiceAsync]_vars

-----------------------------------------------------------------------------
(* Specification of one DirectoryScanner on its own *)

NextScan ==
    \/ ScanSequential
    \/ ScanGenerator
    \/ ParStart
    \/ \E t \in Threads : ParEnter(t)
    \/ \E t \in Threads : ParCall(t)
    \/ \E t \in Threads : ParLoopDone(t)
    \/ \E w \in Workers : WorkerTake(w)
    \/ \E t \in Threads : ParCollect(t)
    \/ \E t \in Threads : ParCollectDone(t)

InitScan == InitScanner /\ NoCache /\ NoService

SpecScan == InitScan /\ [][NextScan]_vars

-----------------------------------------------------------------------------
(* Specification of one CacheService on its own *)

NextCache == CacheCall

InitCacheOnly == InitCache /\ NoScanner /\ NoService

SpecCache == InitCacheOnly /\ [][NextCache]_vars

-----------------------------------------------------------------------------
(* Claims about CacheService, checked under SpecCache *)

\* the step about to be taken is the call op(key)
IsCall(op, key) == lastOp'.op = op /\ lastOp'.key = key /\ steps' = steps + 1

\* C3: when the cache holds max_entries >= 1 unexpired entries, a set of a further
\* distinct key removes exactly one entry, one whose last access is not later than
\* that of any other stored entry, adds one to the eviction counter, and a read-back
\* of the old keys and the new one (none expired) then misses on the evicted key only.
C3_SetEvictsExactlyLru ==
    [][\A key \in CacheKeys :
        ( /\ IsCall("set", key)
          /\ max_entries >= 1
          /\ Len(cache) = max_entries
          /\ key \notin Keys(cache)
          /\ \A i \in 1..Len(cache) : ~is_expired(cache[i], now')
          /\ \A i \in 1..Len(cache') : ~is_expired(cache'[i], now') )
        => \E lru \in Keys(cache) :
            /\ Keys(cache') = (Keys(cache) \ {lru}) \cup {key}
            /\ Len(cache') = max_entries
            /\ \A k \in Keys(cache) :
                  Lookup(cache, lru).last_accessed <= Lookup(cache, k).last_accessed
            /\ stats'.evictions = stats.evictions + 1
            /\ ~lastOp'.raised
            /\ {k \in Keys(cache) \cup {key} :
                  ~CacheGet(cache', stats', k, now').result.some} = {lru}
      ]_vars

\* a full cache of two entries, the older of which was read after the newer was
\* written, has just evicted on a set
C3_Witness ==
    /\ lastOp.op = "set" /\ lastOp.evicted = 1 /\ ~lastOp.raised
    /\ max_entries = 2 /\ Len(cache) = 2
    /\ cache[1].access_count = 2
    /\ cache[1].last_accessed > 0
    /\ stats.hits = 1

\* C4: a get of a key that follows a set of that key with ttl = 0 or a negative ttl
\* returns no value and counts as a miss (misses + 1, hits unchanged).
C4_ZeroTtlIsAbsent ==
    [][\A key \in CacheKeys :
        ( /\ IsCall("get", key)
          /\ lastOp.op = "set" /\ lastOp.key = key /\ ~lastOp.raised
          /\ lastOp.ttl.given /\ lastOp.ttl.v <= 0 )
        => /\ ~lastOp'.hit
           /\ stats'.misses = stats.misses + 1
           /\ stats'.hits = stats.hits
      ]_vars

\* C5: the number of stored entries never exceeds max_entries (max_entries >= 0)
\* and no set call fails to return.
C5_CapacityAndSetReturns ==
    /\ Len(cache) <= max_entries
    /\ (lastOp.op = "set" => ~lastOp.raised)

\* C6 as stated: hits + misses equals the number of get calls made so far.
C6_HitsPlusMissesIsAllGets == stats.hits + stats.misses = getCalls

\* C6 as amended: hits + misses equals the number of get calls made since the cache
\* was constructed or last cleared, and each get adds exactly one to exactly one of
\* the two counters.
C6_HitsPlusMissesSinceClear ==
    /\ [](stats.hits + stats.misses = getsSinceClear)
    /\ [][\A key \in CacheKeys :
            IsCall("get", key) =>
                \/ stats'.hits = stats.hits + 1 /\ stats'.misses = stats.misses
                \/ stats'.hits = stats.hits /\ stats'.misses = stats.misses + 1
         ]_vars

\* gets of all three kinds (plain miss, expired, hit) have been counted
C6_Witness ==
    /\ lastOp.op = "get"
    /\ stats.hits >= 1 /\ stats.expired >= 1 /\ stats.misses >= 1
    /\ getsSinceClear = getCalls

-----------------------------------------------------------------------------
(* Claims about DirectoryScanner, under SpecScan *)

\* C2: whenever scan_sequential and scan_parallel have both returned for the same
\* tree, max_depth and exclusion set, they returned the same nested structure:
\* the same names at every level, each a leaf in both or a directory in both.
C2_SequentialEqualsParallel ==
    (seqResult.state = "done" /\ parResult.state = "done") => seqResult.s = parResult.s

RECURSIVE DictsAtLevel(_, _)
\* the dicts found n levels below the top of structure s (s itself for n = 0)
DictsAtLevel(s, n) ==
    IF s.leaf THEN {}
    ELSE IF n = 0 THEN {s}
    ELSE UNION {DictsAtLevel(s.d[k], n - 1) : k \in DOMAIN s.d}

\* C9: with max_depth D, scan_sequential and scan_parallel make every system call
\* (os.scandir and the per-entry queries) at a depth in 0..D-1, and in the
\* structure each returns, every directory at depth D is exactly the dict with the
\* single key "... (max depth reached)", so that nothing lies below depth D.
C9_DepthBoundary ==
    /\ \A c \in seqResult.calls \cup parCalls : c.depth \in 0..(max_depth - 1)
    /\ seqResult.state = "done" =>
          /\ \A d \in DictsAtLevel(seqResult.s, max_depth) : d = MaxDepthDict
          /\ DictsAtLevel(seqResult.s, max_depth + 1) = {}
    /\ parResult.state = "done" =>
          /\ \A d \in DictsAtLevel(parResult.s, max_depth) : d = MaxDepthDict
          /\ DictsAtLevel(parResult.s, max_depth + 1) = {}

\* max_depth = 2 on the chain of five nested directories: both scans returned,
\* both listed the root and its directory d, and d/d is the placeholder dict
C9_Witness ==
    /\ fs = DeepTree
    /\ max_depth = 2
    /\ seqResult.state = "done"
    /\ parResult.state = "done"
    /\ Call("scandir", <<<<"d">>>>, 1) \in seqResult.calls \cap parCalls
    /\ seqResult.s.d["d"].d["d"] = MaxDepthDict
    /\ parResult.s.d["d"].d["d"] = MaxDepthDict
    /\ DOMAIN seqResult.s.d["d"].d = {"f", "d"}

-----------------------------------------------------------------------------
(* Claims about DirectoryService, under SpecService *)

\* caller c starts a call of op in this step
Starts(c, op) == requests' = requests + 1 /\ calls'[c].req = requests' /\ calls'[c].op = op

\* C1: when a scan_directory call with use_cache=True starts while the cache holds
\* an unexpired entry that an earlier, returned call with the same path and
\* max_depth stored, the call returns a tree equal to the one that earlier call
\* returned, and _scan_directory_sync does not run again.
C1_CachedScanEqualsFirst ==
    [][\A c \in Callers :
          (/\ Starts(c, "scan")
           /\ calls'[c].use_cache
           /\ calls'[c].pc # "raised"
           /\ calls'[c].key \in Keys(cache)
           /\ ~is_expired(Lookup(cache, calls'[c].key), now)
           /\ returnedFor[calls'[c].key].max_depth = calls'[c].max_depth)
          => /\ calls'[c].pc = "returned"
             /\ calls'[c].result.v = returnedFor[calls'[c].key].tree
             /\ traversals' = traversals]_vars

\* the filter built from config.exclude_patterns
ConfigFilter == [exclude_patterns |-> config.exclude_patterns]

Visible(items) == {i \in 1..Len(items) : ~should_exclude(ConfigFilter, items[i].name)}

RECURSIVE Readable(_)
\* every directory at or below entry can be listed and every entry queried
Readable(entry) ==
    /\ entry.kind \in {"file", "dir", "symlink"}
    /\ entry.kind = "dir" => entry.listing = "ok"
    /\ entry.kind = "symlink" => entry.target # "broken"
    /\ \A i \in 1..Len(entry.items) : Readable(entry.items[i])

ZeroCensus == [files |-> 0, dirs |-> 0, size |-> 0]

RECURSIVE Census(_, _, _)
\* the non-excluded regular files (their number and total size) and directories
\* among the entries items[i..] and at most levels - 1 levels below them; all
\* levels for a negative levels
Census(items, i, levels) ==
    IF levels = 0 \/ i > Len(items) THEN ZeroCensus
    ELSE LET e == items[i]
             rest == Census(items, i + 1, levels)
             below == IF e.kind = "dir"
                      THEN Census(e.items, 1, IF levels < 0 THEN levels ELSE levels - 1)
                      ELSE ZeroCensus
         IN IF should_exclude(ConfigFilter, e.name) THEN rest
            ELSE IF e.kind = "file"
            THEN [rest EXCEPT !.files = @ + 1, !.size = @ + e.size]
            ELSE IF e.kind = "dir"
            THEN [files |-> rest.files + below.files, dirs |-> rest.dirs + 1 + below.dirs,
                  size |-> rest.size + below.size]
            ELSE rest

ReturnedScans == {c \in Callers : calls[c].pc = "returned" /\ calls[c].op = "scan"}

\* C7: the tree returned by scan_directory(path, max_depth=D), D >= 1, on a
\* readable directory has as the root's children exactly the non-excluded direct
\* entries of the directory, file_count the number of non-excluded regular files
\* at most D levels below the root and dir_count the number of such directories.
C7_TreeMirrorsFilesystem ==
    \A c \in ReturnedScans :
       (calls[c].max_depth.some /\ calls[c].max_depth.v >= 1 /\ Readable(fs)) =>
          LET root == calls[c].result.v
              expected == Census(fs.items, 1, calls[c].max_depth.v)
          IN /\ Len(root.children) = Cardinality(Visible(fs.items))
             /\ {root.children[i].name : i \in 1..Len(root.children)}
                   = {fs.items[i].name : i \in Visible(fs.items)}
             /\ root.file_count = expected.files
             /\ root.dir_count = expected.dirs

RECURSIVE NodesBelow(_, _)
\* the nodes of the tree under node, each with its number of levels below level
NodesBelow(node, level) ==
    {[node |-> node, level |-> level]}
    \cup UNION {NodesBelow(node.children[i], level + 1) : i \in 1..Len(node.children)}

\* C8: in the tree returned by scan_directory(path, max_depth=D) with an explicit
\* integer D >= 0, every node is at most D levels below the root and has a depth
\* field of at most D.
C8_NoNodeBelowMaxDepth ==
    \A c \in ReturnedScans :
       (calls[c].max_depth.some /\ calls[c].max_depth.v >= 0) =>
          \A n \in NodesBelow(calls[c].result.v, 0) :
             n.level <= calls[c].max_depth.v /\ n.node.depth <= calls[c].max_depth.v

\* C10: the statistics get_directory_stats returns for a directory count every
\* non-excluded regular file of its whole subtree (total_files, total_size) and
\* every non-excluded subdirectory (total_directories), an unreadable
\* subdirectory counting as a directory: 2 files, 2 directories and 30 bytes for
\* a.txt (10 bytes), sub/b.py (20 bytes) and unreadable locked/.
C10_StatsCountWholeSubtree ==
    \A c \in Callers :
       (calls[c].pc = "returned" /\ calls[c].op = "stats") =>
          LET got == calls[c].result.v
              expected == Census(fs.items, 1, -1)
          IN /\ got.total_files = expected.files
             /\ got.total_directories = expected.dirs
             /\ got.total_size = expected.size
             /\ fs = StatsTree =>
                   got.total_files = 2 /\ got.total_directories = 2 /\ got.total_size = 30

RECURSIVE SymlinkIds(_, _)
\* str(path) of every symbolic link at or below entry, which is at path
SymlinkIds(entry, path) ==
    IF entry.kind = "symlink" THEN {PathStr(path)}
    ELSE UNION {SymlinkIds(entry.items[i], Append(path, entry.items[i].name))
                  : i \in 1..Len(entry.items)}

\* C11: in every tree scan_directory returns, each node that stands for a
\* symbolic link of the filesystem (one pointing to a directory, to a file or
\* to nothing) is a terminal node of kind symlink: type symlink, no children.
C11_SymlinksAreTerminalSymlinkNodes ==
    \A c \in ReturnedScans :
       \A n \in NodesBelow(calls[c].result.v, 0) :
          n.node.id \in SymlinkIds(fs, <<fs.name>>) =>
             n.node.type = "symlink" /\ n.node.children = <<>>

\* the characters of names in the order of their lower-case code points
CharOrder ==
    <<"-", ".", "0", "1", "2", "3", "4", "5", "6", "7", "8", "9", "_",
      "a", "b", "c", "d", "e", "f", "g", "h", "i", "j", "k", "l", "m",
      "n", "o", "p", "q", "r", "s", "t", "u", "v", "w", "x", "y", "z">>
CharRank(ch) == CHOOSE i \in 1..Len(CharOrder) : CharOrder[i] = ch

RECURSIVE NameLeq(_, _)
\* a.lower() <= b.lower() for two names
NameLeq(a, b) ==
    IF a = <<>> THEN TRUE
    ELSE IF b = <<>> THEN FALSE
    ELSE IF Head(a) = Head(b) THEN NameLeq(Tail(a), Tail(b))
    ELSE CharRank(Head(a)) < CharRank(Head(b))

\* C12: in every tree scan_directory returns, at every node the children are
\* ordered with all directories before all other entries and, within each of
\* the two groups, case-insensitively by name.
C12_ChildrenDirsFirstByName ==
    \A c \in ReturnedScans :
       \A n \in NodesBelow(calls[c].result.v, 0) :
          LET ch == n.node.children IN
          \A i, j \in 1..Len(ch) :
             i < j =>
                /\ ~(ch[i].type # "directory" /\ ch[j].type = "directory")
                /\ (ch[i].type = "directory") = (ch[j].type = "directory")
                      => NameLeq(ch[i].name, ch[j].name)

RECURSIVE SumOver(_, _, _)
\* the sum of f(children[i]) for i from position i on
SumOver(f(_), children, i) ==
    IF i > Len(children) THEN 0 ELSE f(children[i]) + SumOver(f, children, i + 1)

RECURSIVE FilesIn(_)
\* the number of FILE nodes in the subtree of node, node included
FilesIn(node) ==
    (IF node.type = "file" THEN 1 ELSE 0) + SumOver(FilesIn, node.children, 1)

RECURSIVE DirsIn(_)
\* the number of DIRECTORY nodes in the subtree of node, node included
DirsIn(node) ==
    (IF node.type = "directory" THEN 1 ELSE 0) + SumOver(DirsIn, node.children, 1)

\* C13: in every tree scan_directory returns, built by _build_tree_from_path
\* through add_child, the file_count of each directory node is the number of
\* FILE nodes in its subtree and its dir_count the number of DIRECTORY nodes
\* strictly below it, and every FILE, SYMLINK and ERROR node has no children
\* and zero counts.
C13_CountsMatchSubtree ==
    \A c \in ReturnedScans :
       \A n \in NodesBelow(calls[c].result.v, 0) :
          IF n.node.type = "directory"
          THEN /\ n.node.file_count = FilesIn(n.node)
               /\ n.node.dir_count = DirsIn(n.node) - 1
          ELSE /\ n.node.children = <<>>
               /\ n.node.file_count = 0
               /\ n.node.dir_count = 0

\* a returned tree whose root holds a file, a symlink, an error node and a
\* directory child that has files of its own
C13_Witness ==
    \E c \in ReturnedScans :
       LET root == calls[c].result.v IN
       /\ \E i \in 1..Len(root.children) :
             root.children[i].type = "directory" /\ root.children[i].file_count > 0
       /\ {"file", "symlink", "error"} \subseteq
             {root.children[i].type : i \in 1..Len(root.children)}
       /\ root.file_count >= 2 /\ root.dir_count >= 1

\* C14: a scan_directory call whose path does not exist or is not a directory
\* raises at once, FileNotFoundError or ValueError, and leaves the cache
\* contents, the cache counters and the number of traversals as they were, in
\* every cache state and for either value of use_cache.
C14_InvalidPathRaisesFirst ==
    [][\A c \in Callers :
          (Starts(c, "scan") /\ ~IsValidDirectory(calls'[c].path)) =>
             /\ calls'[c].pc = "raised"
             /\ calls'[c].error = IF Resolve(calls'[c].path).some THEN "ValueError"
                                  ELSE "FileNotFoundError"
             /\ calls'[c].result = Absent
             /\ cache' = cache
             /\ stats' = stats
             /\ traversals' = traversals]_vars

\* scan_directory has raised for an invalid path, with use_cache = True, while
\* the cache holds an entry and has counted lookups
C14_Witness ==
    \E c \in Callers :
       /\ calls[c].op = "scan" /\ calls[c].pc = "raised"
       /\ calls[c].error \in {"FileNotFoundError", "ValueError"}
       /\ calls[c].use_cache
       /\ cache # <<>>
       /\ stats.hits + stats.misses > 0

\* the keys under which scan_directory caches trees of the root
ScanKeys == {generate_cache_key(PathStr(RootPath), EffectiveDepth(d)) : d \in DepthArgs}

\* C15: when the root directory exists and its listing fails, scan_directory
\* reports a failure: no call returns a tree for that root, empty or
\* error-typed, and no tree for it is stored in the cache.
C15_UnlistableRootFails ==
    fs.listing # "ok" =>
       /\ \A c \in Callers : ~(calls[c].op = "scan" /\ calls[c].pc = "returned")
       /\ Keys(cache) \cap ScanKeys = {}

\* C16: a failure of the cache inside scan_directory (get raises, the cached
\* value cannot be rebuilt into a DirectoryNode, set raises) is never passed on
\* to the caller: no scan_directory call on a valid directory ends with an
\* exception.
C16_CacheFailureNotPropagated ==
    \A c \in Callers :
       (calls[c].op = "scan" /\ IsValidDirectory(calls[c].path)) => calls[c].pc # "raised"

RECURSIVE GlobMatch(_, _)
\* name matches pattern as a glob: * any sequence, ? any one character, every
\* other character itself
GlobMatch(pattern, name) ==
    IF pattern = <<>> THEN name = <<>>
    ELSE IF Head(pattern) = "*"
    THEN GlobMatch(Tail(pattern), name) \/ (name # <<>> /\ GlobMatch(pattern, Tail(name)))
    ELSE /\ name # <<>>
         /\ Head(pattern) = "?" \/ Head(pattern) = Head(name)
         /\ GlobMatch(Tail(pattern), Tail(name))

GlobExcluded(patterns, name) ==
    \/ (name # <<>> /\ Head(name) = ".")
    \/ \E pattern \in patterns :
          IF HasWildcard(pattern) THEN GlobMatch(pattern, name) ELSE name = pattern

\* C17: for the pattern set of the scanner and every name of the directory it
\* has scanned, should_exclude is true, and the traversal has skipped the entry
\* without a query, exactly when the name starts with '.', or is one of the
\* patterns without a wildcard, or matches one of the wildcard patterns as a
\* glob ('*' any sequence, '?' any one character, every other character only
\* itself).
C17_ShouldExcludeIsGlob ==
    (seqResult.state = "done" /\ max_depth >= 1 /\ fs.listing = "ok") =>
       \A i \in 1..Len(fs.items) :
          LET name == fs.items[i].name IN
          /\ should_exclude(scanner, name) <=> GlobExcluded(exclude_patterns, name)
          /\ Call("is_symlink", <<name>>, 0) \notin seqResult.calls
                <=> GlobExcluded(exclude_patterns, name)

\* no name on the path is one the scanner's exclusion filter rejects
NoExcludedName(path) == \A i \in 1..Len(path) : ~should_exclude(scanner, path[i])

\* the keys a scan gives to the entry
KeysOf(entry) ==
    {Str(entry.name), Str(entry.name) \o " (symlink)", Str(entry.name) \o " (access error)"}

\* the keys that stand for no entry
MarkerKeys ==
    {"... (max depth reached)", "Permission denied", "Not found"}
    \cup DOMAIN ListingErrorDict("oserr").d

RECURSIVE Accounted(_, _)
\* every key of structure s, at every level, is a marker or the key of an entry
\* of dir that the exclusion filter lets through
Accounted(s, dir) ==
    \A k \in DOMAIN s.d :
       \/ k \in MarkerKeys
       \/ \E i \in 1..Len(dir.items) :
             /\ ~should_exclude(scanner, dir.items[i].name)
             /\ k \in KeysOf(dir.items[i])
             /\ s.d[k].leaf \/ Accounted(s.d[k], dir.items[i])

\* C18: in scan_sequential, scan_parallel and scan_generator no metadata query
\* (is_symlink, is_dir, is_file) and no listing is issued for an entry whose
\* name the exclusion filter rejects, or for anything beneath it, and neither it
\* nor anything beneath it appears in the result, at any depth.
C18_ExcludedEntriesUntouched ==
    /\ \A q \in seqResult.calls \cup parCalls \cup genResult.calls : NoExcludedName(q.path)
    /\ \A i \in 1..Len(genResult.out) : NoExcludedName(genResult.out[i].path)
    /\ seqResult.state = "done" => Accounted(seqResult.s, fs)
    /\ parResult.state = "done" => Accounted(parResult.s, fs)

\* all three traversals have scanned a directory holding an excluded directory
\* with an entry beneath it, next to an entry that is not excluded
C18_Witness ==
    /\ seqResult.state = "done" /\ genResult.state = "done" /\ parResult.state = "done"
    /\ max_depth >= 2
    /\ \E i, j \in 1..Len(fs.items) :
          /\ should_exclude(scanner, fs.items[i].name)
          /\ fs.items[i].kind = "dir" /\ fs.items[i].items # <<>>
          /\ ~should_exclude(scanner, fs.items[j].name)
          /\ Call("is_symlink", <<fs.items[j].name>>, 0)
                \in seqResult.calls \cap parCalls \cap genResult.calls

\* the paths and depths keys are compared for: paths that end in digits or
\* hold the separator, depths of one and two digits
KeyPaths == {"/r", "/r1", "/r:1", "/r:", "/r/1", "/r/sub"}
KeyDepths == {0, 1, 2, 10, 11, 12}

\* on KeyPaths x KeyDepths equal keys come from equal arguments only
KeyIsInjective ==
    \A p1, p2 \in KeyPaths, d1, d2 \in KeyDepths :
       generate_cache_key(p1, d1) = generate_cache_key(p2, d2) => (p1 = p2 /\ d1 = d2)

\* the calls that have computed their cache key
Keyed == {c \in Callers : calls[c].op = "scan" /\ calls[c].key # ""}

\* C19: within one process and for a fixed exclusion set _generate_cache_key is
\* a function of the path and the depth that gives different keys to
\* different arguments: on the bounded domain, and for the keys of the
\* scan_directory calls made, two keys are equal exactly when path and depth
\* are.
C19_CacheKeyInjective ==
    /\ KeyIsInjective
    /\ \A c1, c2 \in Keyed :
          calls[c1].key = calls[c2].key
             <=> /\ calls[c1].path = calls[c2].path
                 /\ EffectiveDepth(calls[c1].max_depth) = EffectiveDepth(calls[c2].max_depth)
    /\ \A c \in Keyed :
          calls[c].key = generate_cache_key(PathStr(calls[c].path),
                                            EffectiveDepth(calls[c].max_depth))

\* two scan_directory calls of the same directory with different depths have
\* computed different keys, and the cache holds a tree under each
C19_Witness ==
    /\ \E c1, c2 \in Keyed :
          /\ calls[c1].path = calls[c2].path
          /\ calls[c1].key # calls[c2].key
          /\ {calls[c1].key, calls[c2].key} \subseteq Keys(cache)

\* every worker of the pool is inside scan_parallel waiting for tasks it has
\* submitted, and each of those tasks is still in the queue
PoolStarved ==
    /\ \E i \in 1..Len(futures) : futures[i].state = "queued"
    /\ \A w \in Workers :
          /\ Running(w)
          /\ Top(w).phase = "collect"
          /\ Top(w).pending # {}
          /\ \A i \in Top(w).pending : futures[i].state = "queued"

\* C20: for every tree, max_depth and pool size max_workers >= 1 every task
\* submitted to the scanner's pool, also one submitted at depth 1 by a worker
\* that then waits for it, is run by some worker: no state is reachable in
\* which all workers wait on tasks that are still queued.
C20_NoPoolStarvation == ~PoolStarved

\* the futures submitted by the scan_parallel invocation f of a directory: one
\* for each directory directly below it
DispatchedFor(f) ==
    {i \in 1..Len(futures) :
        /\ Len(futures[i].path) = Len(f.path) + 1
        /\ SubSeq(futures[i].path, 1, Len(f.path)) = f.path}

\* C21: a scan_parallel invocation that handed subdirectories to the pool
\* returns its structure only when every future submitted for it is done, and
\* the structure it returns has, for each of them, an entry under the
\* subdirectory's name holding that future's result (for a subdirectory whose
\* scan failed, the failure's structure).
C21_ReturnsAfterAllFutures ==
    [][\A t \in Threads :
          (/\ Running(t)
           /\ Top(t).phase = "collect"
           /\ Len(frames'[t]) < Len(frames[t])) =>
             LET f == Top(t) IN
             /\ Cardinality(DispatchedFor(f)) = Len(f.entries)
             /\ \A i \in DispatchedFor(f) :
                   /\ futures[i].state = "done"
                   /\ Str(futures[i].dir.name) \in DOMAIN f.s.d
                   /\ f.s.d[Str(futures[i].dir.name)] = futures[i].result
             /\ (t = MainThread /\ Len(frames[t]) = 1) => parResult' = Returned(f.s)]_vars

\* the scan of six subdirectories handed to the pool has returned, two of them
\* unlistable: all six futures are done and each has its entry
C21_Witness ==
    /\ fs = WideLockedTree
    /\ parResult.state = "done"
    /\ Len(futures) = 6
    /\ \A i \in 1..6 : futures[i].state = "done"
    /\ parResult.s.d["d1"] = ListingErrorDict("perm")
    /\ parResult.s.d["d2"] = ListingErrorDict("gone")
    /\ \A i \in 3..6 : ~parResult.s.d[Str(<<"d", DirNames[i]>>)].leaf

\* the keys of the cache in eviction order, the one evicted next first
EvictionOrder(c) == [i \in 1..Len(c) |-> c[i].key]

\* C22: a set on a key that is already stored does not change the eviction
\* order: the stored keys are in the same order after the refresh as before
\* it, and the entry that was to be evicted next still is.
C22_RefreshKeepsEvictionOrder ==
    [][\A key \in CacheKeys :
          (IsCall("set", key) /\ key \in Keys(cache) /\ ~lastOp'.raised) =>
             /\ EvictionOrder(cache') = EvictionOrder(cache)
             /\ OldestKey(cache') = OldestKey(cache)
      ]_vars

\* C23: a get of a stored key whose entry's age exceeds its TTL returns no
\* value, removes that entry in the same call (one entry fewer, the others as
\* they were, a further get of the key a plain miss), adds one to the expired
\* and to the miss counter and leaves the hit and the eviction counter; a get
\* of a stored key whose entry's age does not exceed its TTL is a hit.
C23_ExpiredGetPurges ==
    [][\A key \in CacheKeys :
          (IsCall("get", key) /\ key \in Keys(cache)) =>
             IF now' > Lookup(cache, key).expires_at
             THEN /\ ~lastOp'.hit
                  /\ cache' = Del(cache, key)
                  /\ Len(cache') = Len(cache) - 1
                  /\ stats' = [stats EXCEPT !.expired = @ + 1, !.misses = @ + 1]
                  /\ LET again == CacheGet(cache', stats', key, now')
                     IN /\ ~again.result.some
                        /\ again.cache = cache'
                        /\ again.stats = [stats' EXCEPT !.misses = @ + 1]
             ELSE /\ lastOp'.hit
                  /\ Keys(cache') = Keys(cache)
                  /\ stats' = [stats EXCEPT !.hits = @ + 1]
      ]_vars

\* two sets and then a get of one of the two keys, which had expired: the get
\* missed, counted the expiry and left the other entry
C23_Witness ==
    /\ steps = 3
    /\ lastOp.op = "get" /\ ~lastOp.hit
    /\ stats = [ZeroStats EXCEPT !.expired = 1, !.misses = 1]
    /\ Len(cache) = 1
    /\ lastOp.key \notin Keys(cache)

\* a metadata query on the entry raises an OS error
QueryFails(entry) == entry.kind \in {"badmeta", "badlink"}

RECURSIVE HasQueryFailure(_)
HasQueryFailure(dir) ==
    \E i \in 1..Len(dir.items) :
       QueryFails(dir.items[i]) \/ HasQueryFailure(dir.items[i])

RECURSIVE FailuresLocal(_, _, _)
\* structure s, returned for the directory dir scanned at depth, has every
\* entry the filter lets through: an entry whose query failed as
\* '<name> (access error)', a file and a symlink as a leaf, a directory as a
\* structure of which the same holds
FailuresLocal(s, dir, depth) ==
    \/ depth >= max_depth
    \/ dir.listing # "ok"
    \/ \A i \in 1..Len(dir.items) :
          LET entry == dir.items[i]
              name == Str(entry.name)
              has(k) == k \in DOMAIN s.d
          IN \/ should_exclude(scanner, entry.name)
             \/ entry.kind = "other"
             \/ QueryFails(entry) /\ has(name \o " (access error)")
                                  /\ s.d[name \o " (access error)"].leaf
             \/ entry.kind = "file" /\ has(name)
             \/ entry.kind = "symlink" /\ has(name \o " (symlink)")
             \/ /\ entry.kind = "dir"
                /\ has(name)
                /\ ~s.d[name].leaf
                /\ FailuresLocal(s.d[name], entry, depth + 1)

RECURSIVE YieldsLocal(_, _, _)
\* scan_generator has yielded every entry of dir the filter lets through, an
\* entry whose query failed with type 'error', down to max_depth
YieldsLocal(dir, path, depth) ==
    \/ depth >= max_depth
    \/ dir.listing # "ok"
    \/ \A i \in 1..Len(dir.items) :
          LET entry == dir.items[i]
              p == Append(path, entry.name)
              yielded(type) == \E k \in 1..Len(genResult.out) :
                                  genResult.out[k] = Yield(p, type, depth)
          IN \/ should_exclude(scanner, entry.name)
             \/ entry.kind = "other"
             \/ QueryFails(entry) /\ yielded("error")
             \/ entry.kind = "file" /\ yielded("file")
             \/ entry.kind = "symlink" /\ yielded("symlink")
             \/ entry.kind = "dir" /\ yielded("dir") /\ YieldsLocal(entry, p, depth + 1)

\* C24: when a metadata query on an entry the filter lets through raises an OS
\* error, scan_sequential, scan_parallel and scan_generator record that entry
\* as an error entry, and every other such entry of the same directory and of
\* its ancestors is in the result as it is without the failure.
C24_QueryFailureIsLocal ==
    HasQueryFailure(fs) =>
       /\ seqResult.state = "done" => FailuresLocal(seqResult.s, fs, 0)
       /\ parResult.state = "done" => FailuresLocal(parResult.s, fs, 0)
       /\ genResult.state = "done" => YieldsLocal(fs, <<>>, 0)

\* s is a directory structure whose only child is the placeholder of a
\* permission error
OnlyPermissionPlaceholder(s) ==
    /\ ~s.leaf
    /\ DOMAIN s.d = {"Permission denied"}
    /\ s.d["Permission denied"].leaf

\* is_symlink raises on no entry of the tree
RECURSIVE NoBadLink(_)
NoBadLink(dir) ==
    \A i \in 1..Len(dir.items) :
       dir.items[i].kind # "badlink" /\ NoBadLink(dir.items[i])

RECURSIVE HasLockedSubdir(_, _)
\* a subdirectory the filter lets through, above max_depth, refuses to be listed
HasLockedSubdir(dir, depth) ==
    /\ depth + 1 < max_depth
    /\ dir.listing = "ok"
    /\ \E i \in 1..Len(dir.items) :
          LET entry == dir.items[i]
          IN /\ entry.kind = "dir"
             /\ ~should_exclude(scanner, entry.name)
             /\ entry.listing = "perm" \/ HasLockedSubdir(entry, depth + 1)

RECURSIVE LockedLocal(_, _, _)
\* in structure s, returned for the listed directory dir scanned at depth,
\* each subdirectory that refuses to be listed holds the placeholder alone, and
\* every other entry the filter lets through is there, the same holding of the
\* structures of the subdirectories that were listed
LockedLocal(s, dir, depth) ==
    \A i \in 1..Len(dir.items) :
       LET entry == dir.items[i]
           name == Str(entry.name)
           has(k) == k \in DOMAIN s.d
       IN \/ should_exclude(scanner, entry.name)
          \/ entry.kind = "other"
          \/ entry.kind = "badmeta" /\ has(name \o " (access error)")
          \/ entry.kind = "file" /\ has(name) /\ s.d[name].leaf
          \/ entry.kind = "symlink" /\ has(name \o " (symlink)")
          \/ /\ entry.kind = "dir"
             /\ has(name)
             /\ IF depth + 1 >= max_depth THEN s.d[name] = MaxDepthDict
                ELSE IF entry.listing = "perm" THEN OnlyPermissionPlaceholder(s.d[name])
                ELSE IF entry.listing # "ok" THEN ~s.d[name].leaf
                ELSE ~s.d[name].leaf /\ LockedLocal(s.d[name], entry, depth + 1)

\* C25: in scan_sequential and in scan_parallel, a subdirectory that cannot be
\* listed for a permission error is in its parent as a directory whose only
\* child is one placeholder entry, and its siblings and the entries of all its
\* ancestors are in the result all the same.
C25_LockedSubdirIsLocal ==
    (HasLockedSubdir(fs, 0) /\ NoBadLink(fs)) =>
       /\ seqResult.state = "done" => LockedLocal(seqResult.s, fs, 0)
       /\ parResult.state = "done" => LockedLocal(parResult.s, fs, 0)

\* both strategies have scanned the six directories of which the first is
\* locked, the concurrent one through the pool
C25_Witness ==
    /\ fs = WideLockedTree
    /\ max_depth >= 2
    /\ seqResult.state = "done"
    /\ parResult.state = "done"
    /\ Len(futures) = 6
    /\ OnlyPermissionPlaceholder(seqResult.s.d["d1"])
    /\ OnlyPermissionPlaceholder(parResult.s.d["d1"])
    /\ \A i \in 3..6 : "f" \in DOMAIN parResult.s.d[Str(<<"d", DirNames[i]>>)].d
    /\ seqResult.s = parResult.s

-----------------------------------------------------------------------------
(* Claims about the service one await at a time, checked under SpecServiceAsync *)

\* the callers inside a critical section of the cache
LockHolders == {c \in Callers : calls[c].holds}

\* C26: under every interleaving of scan_directory and get_directory_stats
\* calls, at most one caller is inside a critical section of the cache; the
\* cache and its counters change only in a step that ends the critical section
\* of the one caller inside; and a caller whose task is with the worker pool
\* does not hold the lock: it holds it only before it has a task, for the get,
\* and after the task is done, for the set.
C26_LockIsExclusiveAndShort ==
    [][/\ Cardinality(LockHolders') <= 1
       /\ \A c \in Callers : calls'[c].holds => calls'[c].pc # "executor"
       /\ (cache' # cache \/ stats' # stats) =>
             \E c \in Callers : LockHolders = {c} /\ ~calls'[c].holds
       /\ \A c \in Callers :
             (calls[c].pc = "executor" /\ calls'[c].pc = "scanned") =>
                (~calls[c].holds /\ cache' = cache /\ stats' = stats)]_vars

\* one caller is about to store its statistics, inside the lock, while the
\* traversal of the other caller's scan runs in the pool
C26_Witness ==
    /\ calls[1].op = "scan" /\ calls[1].pc = "executor" /\ calls[1].started
    /\ calls[2].op = "stats" /\ calls[2].pc = "scanned" /\ calls[2].holds
    /\ stats.misses = 2

\* the step ends call c of scan_directory with CancelledError
EndsCancelled(c) ==
    /\ calls[c].op = "scan"
    /\ calls[c].pc \in {"executor", "scanned"}
    /\ calls'[c].pc = "raised"
    /\ calls'[c].error = "CancelledError"

\* C27: a scan_directory call cancelled while it waits for the worker pool
\* ends only after the traversal handed to the pool has run to completion; its
\* result is then dropped, neither returned nor stored, and the cancellation
\* and the end of the call leave the cache and its counters as they were.
C27_CancelledScanStillRuns ==
    [][\A c \in Callers :
          /\ EndsCancelled(c) =>
                /\ calls[c].pc = "scanned"
                /\ calls[c].result.some
                /\ ~calls'[c].result.some
                /\ cache' = cache /\ stats' = stats /\ returnedFor' = returnedFor
          /\ (calls[c].op = "scan" /\ ~calls[c].cancelled /\ calls'[c].cancelled) =>
                (cache' = cache /\ stats' = stats /\ traversals' = traversals)]_vars

\* the step is caller c's call of get_directory_stats(path) up to its first
\* await of the pool, its return or its exception
StatsCalled(c, path) ==
    /\ requests' = requests + 1
    /\ calls'[c].req = requests'
    /\ calls'[c].op = "stats"
    /\ calls'[c].path = path

\* C28: get_directory_stats on a path that does not exist or is not a
\* directory when it is called raises ValueError, whatever the cache holds,
\* and returns no statistics.
C28_InvalidPathStatsRaise ==
    [][\A c \in Callers, path \in StatsPaths :
          (StatsCalled(c, path) /\ ~IsValidDirectory(path)) =>
             (calls'[c].pc = "raised" /\ calls'[c].error = "ValueError")]_vars

-----------------------------------------------------------------------------
(* More claims about CacheService, checked under SpecCache *)

\* the entry stored under key has expired at time t
ExpiredAt(c, key, t) == t > Lookup(c, key).expires_at

\* C29: under every sequence of set, get, delete, extend_ttl, cleanup_expired
\* and get_entry_info, a get returns a value only for an entry whose expiry
\* time has not passed; extend_ttl on an expired entry returns False and
\* leaves the cache as it is; and an entry that has expired when a call is made
\* is still expired after it, unless the call is a set of its key.
C29_ExpiredStaysUnreadable ==
    [][\A key \in CacheKeys :
          /\ (IsCall("get", key) /\ lastOp'.hit) =>
                (key \in Keys(cache) /\ ~ExpiredAt(cache, key, now'))
          /\ (IsCall("extend_ttl", key) /\ key \in Keys(cache)
                 /\ ExpiredAt(cache, key, now')) =>
                (~lastOp'.ok /\ cache' = cache)
          /\ (steps' = steps + 1 /\ key \in Keys(cache) /\ key \in Keys(cache')
                 /\ ExpiredAt(cache, key, now') /\ ~IsCall("set", key)) =>
                ExpiredAt(cache', key, now')]_vars

\* extend_ttl has just been refused for an entry that is stored and has
\* expired, and the entry is as it was stored
C29_Witness ==
    /\ lastOp.op = "extend_ttl"
    /\ ~lastOp.ok
    /\ lastOp.key \in Keys(cache)
    /\ ExpiredAt(cache, lastOp.key, now)
    /\ Lookup(cache, lastOp.key).expires_at = 1
    /\ steps = 3

-----------------------------------------------------------------------------
(* More claims about DirectoryService, checked under SpecService *)

\* caller c has a scan_directory call with use_cache=False for a directory
Uncached(call) ==
    call.op = "scan" /\ ~call.use_cache /\ IsValidDirectory(call.path)

\* the key a scan_directory call with use_cache=True and the same arguments uses
KeyOf(call) == generate_cache_key(PathStr(call.path), EffectiveDepth(call.max_depth))

\* C30: a scan_directory call with use_cache=False neither reads nor writes the
\* cache: each of its steps (the call up to the worker pool, the traversal, the
\* return) leaves the stored entries, their order and the four counters as
\* they were; the call always goes to the worker pool, also with an unexpired
\* entry stored under its key, and returns the tree of its own traversal.
C30_NoCacheWhenDisabled ==
    [][\A c \in Callers :
          /\ (requests' = requests + 1 /\ calls'[c].req = requests' /\ Uncached(calls'[c])) =>
                (cache' = cache /\ stats' = stats /\ calls'[c].pc = "executor")
          /\ (Uncached(calls[c]) /\ calls[c].pc = "executor" /\ calls'[c] # calls[c]) =>
                /\ cache' = cache /\ stats' = stats
                /\ calls'[c].pc = "scanned"
                /\ traversals' = traversals + 1
          /\ (Uncached(calls[c]) /\ calls[c].pc = "scanned" /\ calls'[c] # calls[c]) =>
                /\ cache' = cache /\ stats' = stats
                /\ calls'[c].pc = "returned"
                /\ calls'[c].result = calls[c].result]_vars

\* a call with use_cache=False has returned the tree of a second traversal
\* while the entry that the first call stored under its key is unexpired, and
\* the cache has seen nothing of it
C30_Witness ==
    /\ calls[1].pc = "returned"
    /\ Uncached(calls[1])
    /\ traversals = 2
    /\ KeyOf(calls[1]) \in Keys(cache)
    /\ ~is_expired(Lookup(cache, KeyOf(calls[1])), now)
    /\ Len(cache) = 1
    /\ stats = [ZeroStats EXCEPT !.misses = 1]

====
